---------------------------- MODULE Spec2Model ----------------------------
(***************************************************************************)
(* A model of the X.509 certificate engine (x509-certificate 0.23.1):      *)
(* the algorithm registry (algorithm.rs), the signing key pair             *)
(* (signing.rs), and the certificate, captured certificate and builder     *)
(* (certificate.rs); and of the circuit breaker of the blockchain service  *)
(* (simple_backend/src/network.rs).                                        *)
(*                                                                         *)
(* Conventions.  A Rust Result is a record: Ok(v) or Err(kind, detail).    *)
(* An Option is a record: Some(v) or None.  An OID is the dotted string    *)
(* its byte array decodes to.  An enum variant is a record whose first     *)
(* field names the variant.                                                *)
(***************************************************************************)
EXTENDS Naturals, Sequences, FiniteSets, TLC

VARIABLES
    \* algorithm registry: the last registry call and what it returned
    alg_call, alg_ret,
    \* certificates a caller holds: a captured certificate, a second one, the
    \* key pair a certificate was created with, a MutableX509Certificate made
    \* from a clone of the first, and the last call on them with its result
    held_cert, held_other, held_key_pair, held_mutable, cert_call, cert_ret,
    \* a call of find_signing_certificate or resolve_signing_chain: which one,
    \* its self and candidates, the position in the candidates, the locals of
    \* resolve_signing_chain, where the call is, and what find returned
    rsc_call, rsc_self, rsc_candidates, rsc_iter, rsc_seen, rsc_remaining,
    rsc_chain, rsc_last_cert, rsc_pc, rsc_found,
    \* the circuit breaker: its fields, the clock Utc::now() reads, and for
    \* each task that runs execute_with_circuit_breaker where it is and the
    \* count its record_failure read
    cb_status, cb_failure_count, cb_last_failure_time, cb_threshold, cb_now,
    cb_pc, cb_count

algVars == <<alg_call, alg_ret>>

certVars == <<held_cert, held_other, held_key_pair, held_mutable, cert_call, cert_ret>>

chainVars == <<rsc_call, rsc_self, rsc_candidates, rsc_iter, rsc_seen, rsc_remaining,
               rsc_chain, rsc_last_cert, rsc_pc, rsc_found>>

cbVars == <<cb_status, cb_failure_count, cb_last_failure_time, cb_threshold, cb_now,
            cb_pc, cb_count>>

vars == <<alg_call, alg_ret, held_cert, held_other, held_key_pair, held_mutable, cert_call, cert_ret,
          rsc_call, rsc_self, rsc_candidates, rsc_iter, rsc_seen, rsc_remaining,
          rsc_chain, rsc_last_cert, rsc_pc, rsc_found,
          cb_status, cb_failure_count, cb_last_failure_time, cb_threshold, cb_now,
          cb_pc, cb_count>>

----------------------------------------------------------------------------
(* Result and Option *)

Ok(v) == [tag |-> "Ok", v |-> v]

Err(kind, detail) == [tag |-> "Err", kind |-> kind, detail |-> detail]

is_ok(r) == r.tag = "Ok"

is_err(r) == r.tag = "Err"

Some(v) == [tag |-> "Some", v |-> v]

None == [tag |-> "None"]

\* A panic: the thread unwinds with this message.
Panic(msg) == [tag |-> "Panic", msg |-> msg]

----------------------------------------------------------------------------
(* algorithm.rs: the OID constants *)

OID_SHA1 == "1.3.14.3.2.26"

OID_SHA256 == "2.16.840.1.101.3.4.2.1"

OID_SHA384 == "2.16.840.1.101.3.4.2.2"

OID_SHA512 == "2.16.840.1.101.3.4.2.3"

OID_SHA1_RSA == "1.2.840.113549.1.1.5"

OID_SHA256_RSA == "1.2.840.113549.1.1.11"

OID_SHA384_RSA == "1.2.840.113549.1.1.12"

OID_SHA512_RSA == "1.2.840.113549.1.1.13"

OID_RSA == "1.2.840.113549.1.1.1"

OID_ECDSA_SHA256 == "1.2.840.10045.4.3.2"

OID_ECDSA_SHA384 == "1.2.840.10045.4.3.3"

OID_EC_PUBLIC_KEY == "1.2.840.10045.2.1"

OID_ED25519_KEY_AGREEMENT == "1.3.101.110"

OID_ED25519_SIGNATURE_ALGORITHM == "1.3.101.112"

OID_EC_SECP256R1 == "1.2.840.10045.3.1.7"

OID_EC_SECP384R1 == "1.3.132.0.34"

OID_NO_SIGNATURE_ALGORITHM == "1.3.6.1.5.5.7.6.2"

\* certificate.rs: the extension OIDs
OID_EXTENSION_KEY_USAGE == "2.5.29.15"

OID_EXTENSION_BASIC_CONSTRAINTS == "2.5.29.19"

\* secp521r1, the curve of testdata/ecdsa-p512-sha256-self-signed.cer: an OID
\* the registry has no constant for
OID_EC_SECP521R1 == "1.3.132.0.35"

\* Every OID the model feeds to the registry.
Oids ==
    { OID_SHA1, OID_SHA256, OID_SHA384, OID_SHA512,
      OID_SHA1_RSA, OID_SHA256_RSA, OID_SHA384_RSA, OID_SHA512_RSA, OID_RSA,
      OID_ECDSA_SHA256, OID_ECDSA_SHA384, OID_EC_PUBLIC_KEY,
      OID_ED25519_KEY_AGREEMENT, OID_ED25519_SIGNATURE_ALGORITHM,
      OID_EC_SECP256R1, OID_EC_SECP384R1, OID_NO_SIGNATURE_ALGORITHM,
      OID_EXTENSION_KEY_USAGE, OID_EXTENSION_BASIC_CONSTRAINTS,
      OID_EC_SECP521R1 }

----------------------------------------------------------------------------
(* algorithm.rs: DigestAlgorithm *)

Sha1 == [da |-> "Sha1"]

Sha256 == [da |-> "Sha256"]

Sha384 == [da |-> "Sha384"]

Sha512 == [da |-> "Sha512"]

DigestAlgorithm == {Sha1, Sha256, Sha384, Sha512}

\* impl From<DigestAlgorithm> for Oid
DigestAlgorithm_into_oid(alg) ==
    CASE alg.da = "Sha1" -> OID_SHA1
      [] alg.da = "Sha256" -> OID_SHA256
      [] alg.da = "Sha384" -> OID_SHA384
      [] alg.da = "Sha512" -> OID_SHA512

\* impl TryFrom<&Oid> for DigestAlgorithm
DigestAlgorithm_try_from_oid(v) ==
    IF v = OID_SHA1 THEN Ok(Sha1)
    ELSE IF v = OID_SHA256 THEN Ok(Sha256)
    ELSE IF v = OID_SHA384 THEN Ok(Sha384)
    ELSE IF v = OID_SHA512 THEN Ok(Sha512)
    ELSE Err("UnknownDigestAlgorithm", <<v>>)

\* The bytes of a digest algorithm's OID, as the constant holds them.
OidBytes(alg) ==
    CASE alg.da = "Sha1" -> <<43, 14, 3, 2, 26>>
      [] alg.da = "Sha256" -> <<96, 134, 72, 1, 101, 3, 4, 2, 1>>
      [] alg.da = "Sha384" -> <<96, 134, 72, 1, 101, 3, 4, 2, 2>>
      [] alg.da = "Sha512" -> <<96, 134, 72, 1, 101, 3, 4, 2, 3>>

\* The output length in bytes of the ring digest algorithm of a variant
\* (impl From<DigestAlgorithm> for digest::Context).
digest_output_len(alg) ==
    CASE alg.da = "Sha1" -> 20
      [] alg.da = "Sha256" -> 32
      [] alg.da = "Sha384" -> 48
      [] alg.da = "Sha512" -> 64

\* DigestAlgorithm::digest_data: a message is the number that identifies its
\* content, and its digest is bytes that the algorithm and the message fix.
digest_data(self, message) ==
    [i \in 1..digest_output_len(self) |-> (message * 16 + digest_output_len(self) + i) % 256]

\* A DER tag-length-value with a short-form length, as write_encoded emits it.
der_tlv(tag, content) == <<tag, Len(content)>> \o content

\* DigestInfo { algorithm, digest } written with Mode::Der (lines 253-259): a
\* SEQUENCE of the AlgorithmIdentifier, a SEQUENCE of the OID with no
\* parameters (impl From<DigestAlgorithm> for AlgorithmIdentifier), and the
\* digest as an OCTET STRING.
digest_info_der(self, digest) ==
    der_tlv(48, der_tlv(48, der_tlv(6, OidBytes(self))) \o der_tlv(4, digest))

\* rsa_pkcs1_encode asking for 3 bytes beside the DigestInfo, not 11: no
\* padding byte is required
rsa_pkcs1_encode_no_minimum_padding(self, message, target_length_in_bytes) ==
    LET digest_info_der_ == digest_info_der(self, digest_data(self, message))
        encoded_digest_len == Len(digest_info_der_)
        pad_len == target_length_in_bytes - encoded_digest_len - 3
    IN  IF encoded_digest_len + 3 > target_length_in_bytes
        THEN Err("PkcsEncodeTooShort", <<>>)
        ELSE IF target_length_in_bytes < encoded_digest_len + 3
        THEN Panic("attempt to subtract with overflow")
        ELSE IF 2 + pad_len >= target_length_in_bytes
        THEN Panic("index out of bounds")
        ELSE Ok([i \in 1..target_length_in_bytes |->
                    IF i = 1 THEN 0
                    ELSE IF i = 2 THEN 1
                    ELSE IF i < 3 + pad_len THEN 255
                    ELSE IF i = 3 + pad_len THEN 0
                    ELSE digest_info_der_[i - (3 + pad_len)]])

\* rsa_pkcs1_encode with the block type byte of encryption padding, 0x02
rsa_pkcs1_encode_block_type_2(self, message, target_length_in_bytes) ==
    LET digest_info_der_ == digest_info_der(self, digest_data(self, message))
        encoded_digest_len == Len(digest_info_der_)
        pad_len == target_length_in_bytes - encoded_digest_len - 3
    IN  IF encoded_digest_len + 11 > target_length_in_bytes
        THEN Err("PkcsEncodeTooShort", <<>>)
        ELSE IF target_length_in_bytes < encoded_digest_len + 3
        THEN Panic("attempt to subtract with overflow")
        ELSE IF 2 + pad_len >= target_length_in_bytes
        THEN Panic("index out of bounds")
        ELSE Ok([i \in 1..target_length_in_bytes |->
                    IF i = 1 THEN 0
                    ELSE IF i = 2 THEN 2
                    ELSE IF i < 3 + pad_len THEN 255
                    ELSE IF i = 3 + pad_len THEN 0
                    ELSE digest_info_der_[i - (3 + pad_len)]])

\* DigestAlgorithm::rsa_pkcs1_encode.  The lengths are usize: the subtraction
\* that gives pad_len panics (or, built without overflow checks, wraps and the
\* index that follows is out of bounds and panics) when the target is shorter
\* than the DigestInfo and 3 bytes.  res is vec![0xff; target], res[0], res[1]
\* and res[2 + pad_len] are written, and res[3 + pad_len..] is the copy of the
\* DigestInfo; byte i of the model is res[i - 1].
rsa_pkcs1_encode(self, message, target_length_in_bytes) ==
    LET digest_info_der_ == digest_info_der(self, digest_data(self, message))
        encoded_digest_len == Len(digest_info_der_)
        pad_len == target_length_in_bytes - encoded_digest_len - 3
    IN  IF encoded_digest_len + 11 > target_length_in_bytes
        THEN Err("PkcsEncodeTooShort", <<>>)
        ELSE IF target_length_in_bytes < encoded_digest_len + 3
        THEN Panic("attempt to subtract with overflow")
        ELSE IF 2 + pad_len >= target_length_in_bytes
        THEN Panic("index out of bounds")
        ELSE Ok([i \in 1..target_length_in_bytes |->
                    IF i = 1 THEN 0
                    ELSE IF i = 2 THEN 1
                    ELSE IF i < 3 + pad_len THEN 255
                    ELSE IF i = 3 + pad_len THEN 0
                    ELSE digest_info_der_[i - (3 + pad_len)]])

----------------------------------------------------------------------------
(* algorithm.rs: SignatureAlgorithm *)

RsaSha1 == [sa |-> "RsaSha1"]

RsaSha256 == [sa |-> "RsaSha256"]

RsaSha384 == [sa |-> "RsaSha384"]

RsaSha512 == [sa |-> "RsaSha512"]

EcdsaSha256 == [sa |-> "EcdsaSha256"]

EcdsaSha384 == [sa |-> "EcdsaSha384"]

Ed25519Sig == [sa |-> "Ed25519"]

NoSignature(d) == [sa |-> "NoSignature", digest |-> d]

SignatureAlgorithm ==
    { RsaSha1, RsaSha256, RsaSha384, RsaSha512, EcdsaSha256, EcdsaSha384,
      Ed25519Sig } \cup { NoSignature(d) : d \in DigestAlgorithm }

\* impl TryFrom<&Oid> for SignatureAlgorithm with an arm for the no-signature
\* OID, which has no digest to give and takes SHA-256
SignatureAlgorithm_try_from_oid_with_no_signature(v) ==
    IF v = OID_SHA1_RSA THEN Ok(RsaSha1)
    ELSE IF v = OID_SHA256_RSA THEN Ok(RsaSha256)
    ELSE IF v = OID_SHA384_RSA THEN Ok(RsaSha384)
    ELSE IF v = OID_SHA512_RSA THEN Ok(RsaSha512)
    ELSE IF v = OID_ECDSA_SHA256 THEN Ok(EcdsaSha256)
    ELSE IF v = OID_ECDSA_SHA384 THEN Ok(EcdsaSha384)
    ELSE IF v = OID_ED25519_SIGNATURE_ALGORITHM THEN Ok(Ed25519Sig)
    ELSE IF v = OID_NO_SIGNATURE_ALGORITHM THEN Ok(NoSignature(Sha256))
    ELSE Err("UnknownSignatureAlgorithm", <<v>>)

\* impl TryFrom<&Oid> for SignatureAlgorithm
SignatureAlgorithm_try_from_oid(v) ==
    IF v = OID_SHA1_RSA THEN Ok(RsaSha1)
    ELSE IF v = OID_SHA256_RSA THEN Ok(RsaSha256)
    ELSE IF v = OID_SHA384_RSA THEN Ok(RsaSha384)
    ELSE IF v = OID_SHA512_RSA THEN Ok(RsaSha512)
    ELSE IF v = OID_ECDSA_SHA256 THEN Ok(EcdsaSha256)
    ELSE IF v = OID_ECDSA_SHA384 THEN Ok(EcdsaSha384)
    ELSE IF v = OID_ED25519_SIGNATURE_ALGORITHM THEN Ok(Ed25519Sig)
    ELSE Err("UnknownSignatureAlgorithm", <<v>>)

\* impl From<SignatureAlgorithm> for Oid
SignatureAlgorithm_into_oid(alg) ==
    CASE alg.sa = "RsaSha1" -> OID_SHA1_RSA
      [] alg.sa = "RsaSha256" -> OID_SHA256_RSA
      [] alg.sa = "RsaSha384" -> OID_SHA384_RSA
      [] alg.sa = "RsaSha512" -> OID_SHA512_RSA
      [] alg.sa = "EcdsaSha256" -> OID_ECDSA_SHA256
      [] alg.sa = "EcdsaSha384" -> OID_ECDSA_SHA384
      [] alg.sa = "Ed25519" -> OID_ED25519_SIGNATURE_ALGORITHM
      [] alg.sa = "NoSignature" -> OID_NO_SIGNATURE_ALGORITHM

----------------------------------------------------------------------------
(* algorithm.rs: EcdsaCurve and KeyAlgorithm *)

Secp256r1 == "Secp256r1"

Secp384r1 == "Secp384r1"

\* EcdsaCurve::all
EcdsaCurve == {Secp256r1, Secp384r1}

Rsa == [ka |-> "Rsa"]

Ecdsa(curve) == [ka |-> "Ecdsa", curve |-> curve]

Ed25519 == [ka |-> "Ed25519"]

KeyAlgorithm == {Rsa, Ed25519} \cup { Ecdsa(c) : c \in EcdsaCurve }

\* impl TryFrom<&Oid> for EcdsaCurve
EcdsaCurve_try_from_oid(v) ==
    IF v = OID_EC_SECP256R1 THEN Ok(Secp256r1)
    ELSE IF v = OID_EC_SECP384R1 THEN Ok(Secp384r1)
    ELSE Err("UnknownEllipticCurve", <<v>>)

\* EcdsaCurve::as_signature_oid
as_signature_oid(curve) ==
    IF curve = Secp256r1 THEN OID_EC_SECP256R1 ELSE OID_EC_SECP384R1

\* impl TryFrom<&Oid> for KeyAlgorithm
KeyAlgorithm_try_from_oid(v) ==
    IF v = OID_RSA THEN Ok(Rsa)
    ELSE IF v = OID_EC_PUBLIC_KEY THEN Ok(Ecdsa(Secp384r1))
    ELSE IF v = OID_ED25519_KEY_AGREEMENT \/ v = OID_ED25519_SIGNATURE_ALGORITHM
         THEN Ok(Ed25519)
    ELSE Err("UnknownKeyAlgorithm", <<v>>)

\* impl From<KeyAlgorithm> for Oid with Ed25519 given the OID of the Ed25519
\* signature algorithm
KeyAlgorithm_into_oid_signature_oid(alg) ==
    CASE alg.ka = "Rsa" -> OID_RSA
      [] alg.ka = "Ecdsa" -> OID_EC_PUBLIC_KEY
      [] alg.ka = "Ed25519" -> OID_ED25519_SIGNATURE_ALGORITHM

\* impl From<KeyAlgorithm> for Oid
KeyAlgorithm_into_oid(alg) ==
    CASE alg.ka = "Rsa" -> OID_RSA
      [] alg.ka = "Ecdsa" -> OID_EC_PUBLIC_KEY
      [] alg.ka = "Ed25519" -> OID_ED25519_KEY_AGREEMENT

----------------------------------------------------------------------------
(* algorithm.rs: the two-tier resolver *)

\* from_key_and_digest_algorithm with the ECDSA arm taking every digest: SHA-1
\* and SHA-512 fall to the nearest ECDSA variant instead of being refused
from_key_and_digest_algorithm_any_digest(key_alg, digest_algorithm) ==
    CASE key_alg.ka = "Rsa" ->
           ( CASE digest_algorithm = Sha1 -> Ok(RsaSha1)
               [] digest_algorithm = Sha256 -> Ok(RsaSha256)
               [] digest_algorithm = Sha384 -> Ok(RsaSha384)
               [] digest_algorithm = Sha512 -> Ok(RsaSha512) )
      [] key_alg.ka = "Ed25519" -> Ok(Ed25519Sig)
      [] key_alg.ka = "Ecdsa" ->
           ( CASE digest_algorithm \in {Sha1, Sha256} -> Ok(EcdsaSha256)
               [] digest_algorithm \in {Sha384, Sha512} -> Ok(EcdsaSha384) )

\* SignatureAlgorithm::from_oid_and_digest_algorithm, with a bare key OID
\* resolved to a key algorithm already (lines 364-382)
from_key_and_digest_algorithm(key_alg, digest_algorithm) ==
    CASE key_alg.ka = "Rsa" ->
           ( CASE digest_algorithm = Sha1 -> Ok(RsaSha1)
               [] digest_algorithm = Sha256 -> Ok(RsaSha256)
               [] digest_algorithm = Sha384 -> Ok(RsaSha384)
               [] digest_algorithm = Sha512 -> Ok(RsaSha512) )
      [] key_alg.ka = "Ed25519" -> Ok(Ed25519Sig)
      [] key_alg.ka = "Ecdsa" ->
           ( CASE digest_algorithm = Sha256 -> Ok(EcdsaSha256)
               [] digest_algorithm = Sha384 -> Ok(EcdsaSha384)
               [] digest_algorithm \in {Sha1, Sha512} ->
                    Err("UnknownSignatureAlgorithm",
                        <<"cannot use digest with ECDSA", digest_algorithm.da>>) )

\* SignatureAlgorithm::from_oid_and_digest_algorithm
from_oid_and_digest_algorithm(oid, digest_algorithm) ==
    IF is_ok(SignatureAlgorithm_try_from_oid(oid))
    THEN SignatureAlgorithm_try_from_oid(oid)
    ELSE IF is_ok(KeyAlgorithm_try_from_oid(oid))
    THEN from_key_and_digest_algorithm(KeyAlgorithm_try_from_oid(oid).v,
                                       digest_algorithm)
    ELSE IF oid = OID_NO_SIGNATURE_ALGORITHM
    THEN Ok(NoSignature(digest_algorithm))
    ELSE Err("UnknownSignatureAlgorithm", <<"do not know how to resolve", oid>>)

----------------------------------------------------------------------------
(* algorithm.rs: the verification primitive of a signature/key pairing *)

\* The pairing is illegal (each `alg => Err(..)` arm).
UnsupportedSignatureVerification(key_algorithm, alg) ==
    Err("UnsupportedSignatureVerification", <<key_algorithm, alg>>)

\* resolve_verification_algorithm with each curve tied to the digest of its
\* own strength: P-256 with SHA-384 and P-384 with SHA-256 are refused
resolve_verification_algorithm_matched_strength(self, key_algorithm) ==
    CASE key_algorithm.ka = "Rsa" ->
           ( CASE self = RsaSha1 -> Ok("RSA_PKCS1_2048_8192_SHA1_FOR_LEGACY_USE_ONLY")
               [] self = RsaSha256 -> Ok("RSA_PKCS1_2048_8192_SHA256")
               [] self = RsaSha384 -> Ok("RSA_PKCS1_2048_8192_SHA384")
               [] self = RsaSha512 -> Ok("RSA_PKCS1_2048_8192_SHA512")
               [] OTHER -> UnsupportedSignatureVerification(key_algorithm, self) )
      [] key_algorithm.ka = "Ed25519" ->
           ( CASE self = Ed25519Sig -> Ok("ED25519")
               [] OTHER -> UnsupportedSignatureVerification(key_algorithm, self) )
      [] key_algorithm.ka = "Ecdsa" /\ key_algorithm.curve = Secp256r1 ->
           ( CASE self = EcdsaSha256 -> Ok("ECDSA_P256_SHA256_ASN1")
               [] OTHER -> UnsupportedSignatureVerification(key_algorithm, self) )
      [] key_algorithm.ka = "Ecdsa" /\ key_algorithm.curve = Secp384r1 ->
           ( CASE self = EcdsaSha384 -> Ok("ECDSA_P384_SHA384_ASN1")
               [] OTHER -> UnsupportedSignatureVerification(key_algorithm, self) )

\* SignatureAlgorithm::resolve_verification_algorithm; the primitive is named
\* as the constant of ring::signature it returns a reference to
resolve_verification_algorithm(self, key_algorithm) ==
    CASE key_algorithm.ka = "Rsa" ->
           ( CASE self = RsaSha1 -> Ok("RSA_PKCS1_2048_8192_SHA1_FOR_LEGACY_USE_ONLY")
               [] self = RsaSha256 -> Ok("RSA_PKCS1_2048_8192_SHA256")
               [] self = RsaSha384 -> Ok("RSA_PKCS1_2048_8192_SHA384")
               [] self = RsaSha512 -> Ok("RSA_PKCS1_2048_8192_SHA512")
               [] OTHER -> UnsupportedSignatureVerification(key_algorithm, self) )
      [] key_algorithm.ka = "Ed25519" ->
           ( CASE self = Ed25519Sig -> Ok("ED25519")
               [] OTHER -> UnsupportedSignatureVerification(key_algorithm, self) )
      [] key_algorithm.ka = "Ecdsa" /\ key_algorithm.curve = Secp256r1 ->
           ( CASE self = EcdsaSha256 -> Ok("ECDSA_P256_SHA256_ASN1")
               [] self = EcdsaSha384 -> Ok("ECDSA_P256_SHA384_ASN1")
               [] OTHER -> UnsupportedSignatureVerification(key_algorithm, self) )
      [] key_algorithm.ka = "Ecdsa" /\ key_algorithm.curve = Secp384r1 ->
           ( CASE self = EcdsaSha256 -> Ok("ECDSA_P384_SHA256_ASN1")
               [] self = EcdsaSha384 -> Ok("ECDSA_P384_SHA384_ASN1")
               [] OTHER -> UnsupportedSignatureVerification(key_algorithm, self) )

----------------------------------------------------------------------------
(* rfc5280::AlgorithmIdentifier: an OID and optional parameters.  A parameter *)
(* is the ASN.1 NULL (05 00), an OID, or some other encoded value.            *)

ParamNull == [p |-> "null"]

ParamOid(oid) == [p |-> "oid", oid |-> oid]

ParamOther == [p |-> "other"]

AlgorithmIdentifier(algorithm, parameters) ==
    [algorithm |-> algorithm, parameters |-> parameters]

\* AlgorithmParameter::decode_oid, as the ECDSA arm uses it
decode_oid(params) ==
    IF params.p = "oid" THEN Ok(params.oid)
    ELSE Err("Asn1Decode", <<"parameters are not an OID">>)

\* The parameters-present arm with the ECDSA case keeping the curve the bare
\* OID gave instead of resolving the curve the parameters name
apply_parameters_keeping_placeholder(ka, params) ==
    CASE ka.ka = "Ecdsa" ->
           IF is_err(decode_oid(params)) THEN decode_oid(params)
           ELSE IF is_err(EcdsaCurve_try_from_oid(decode_oid(params).v))
           THEN EcdsaCurve_try_from_oid(decode_oid(params).v)
           ELSE Ok(ka)
      [] ka.ka = "Ed25519" ->
           IF params = ParamNull THEN Ok(ka)
           ELSE Err("UnhandledKeyAlgorithmParameters", <<"on ED25519">>)
      [] ka.ka = "Rsa" ->
           IF params = ParamNull THEN Ok(ka)
           ELSE Err("UnhandledKeyAlgorithmParameters", <<"on RSA">>)

\* KeyAlgorithm::try_from(&AlgorithmIdentifier), the arm taken when parameters
\* are present (lines 667-690)
apply_parameters(ka, params) ==
    CASE ka.ka = "Ecdsa" ->
           IF is_err(decode_oid(params)) THEN decode_oid(params)
           ELSE IF is_err(EcdsaCurve_try_from_oid(decode_oid(params).v))
           THEN EcdsaCurve_try_from_oid(decode_oid(params).v)
           ELSE Ok(Ecdsa(EcdsaCurve_try_from_oid(decode_oid(params).v).v))
      [] ka.ka = "Ed25519" ->
           IF params = ParamNull THEN Ok(ka)
           ELSE Err("UnhandledKeyAlgorithmParameters", <<"on ED25519">>)
      [] ka.ka = "Rsa" ->
           IF params = ParamNull THEN Ok(ka)
           ELSE Err("UnhandledKeyAlgorithmParameters", <<"on RSA">>)

\* impl TryFrom<&AlgorithmIdentifier> for KeyAlgorithm
KeyAlgorithm_try_from_identifier(v) ==
    IF is_err(KeyAlgorithm_try_from_oid(v.algorithm))
    THEN KeyAlgorithm_try_from_oid(v.algorithm)
    ELSE IF v.parameters.tag = "Some"
    THEN apply_parameters(KeyAlgorithm_try_from_oid(v.algorithm).v, v.parameters.v)
    ELSE KeyAlgorithm_try_from_oid(v.algorithm)

\* impl From<KeyAlgorithm> for AlgorithmIdentifier without the curve in the
\* parameters
KeyAlgorithm_into_identifier_without_curve(alg) ==
    AlgorithmIdentifier(KeyAlgorithm_into_oid(alg), None)

\* impl From<KeyAlgorithm> for AlgorithmIdentifier
KeyAlgorithm_into_identifier(alg) ==
    AlgorithmIdentifier(
        KeyAlgorithm_into_oid(alg),
        IF alg.ka = "Ecdsa" THEN Some(ParamOid(as_signature_oid(alg.curve)))
        ELSE None)

\* impl TryFrom<&AlgorithmIdentifier> for SignatureAlgorithm
SignatureAlgorithm_try_from_identifier(v) ==
    SignatureAlgorithm_try_from_oid(v.algorithm)

\* impl From<SignatureAlgorithm> for AlgorithmIdentifier
SignatureAlgorithm_into_identifier(alg) ==
    AlgorithmIdentifier(SignatureAlgorithm_into_oid(alg), None)

\* What a verification primitive of ring::signature checks: the key family
\* and curve it parses the public key as, and the digest it applies.
ring_verification_algorithm(name) ==
    CASE name = "RSA_PKCS1_2048_8192_SHA1_FOR_LEGACY_USE_ONLY" ->
           [family |-> "RSA", curve |-> "-", digest |-> "SHA1"]
      [] name = "RSA_PKCS1_2048_8192_SHA256" ->
           [family |-> "RSA", curve |-> "-", digest |-> "SHA256"]
      [] name = "RSA_PKCS1_2048_8192_SHA384" ->
           [family |-> "RSA", curve |-> "-", digest |-> "SHA384"]
      [] name = "RSA_PKCS1_2048_8192_SHA512" ->
           [family |-> "RSA", curve |-> "-", digest |-> "SHA512"]
      [] name = "ED25519" ->
           [family |-> "ED25519", curve |-> "-", digest |-> "-"]
      [] name = "ECDSA_P256_SHA256_ASN1" ->
           [family |-> "ECDSA", curve |-> "P256", digest |-> "SHA256"]
      [] name = "ECDSA_P256_SHA384_ASN1" ->
           [family |-> "ECDSA", curve |-> "P256", digest |-> "SHA384"]
      [] name = "ECDSA_P384_SHA256_ASN1" ->
           [family |-> "ECDSA", curve |-> "P384", digest |-> "SHA256"]
      [] name = "ECDSA_P384_SHA384_ASN1" ->
           [family |-> "ECDSA", curve |-> "P384", digest |-> "SHA384"]

----------------------------------------------------------------------------
(* signing.rs: InMemorySigningKeyPair.  A key pair is its variant, its curve  *)
(* (ECDSA) and the identity of its key material.                              *)

EcdsaKeyPair(curve, id) == [kp |-> "Ecdsa", curve |-> curve, id |-> id]

Ed25519KeyPair(id) == [kp |-> "Ed25519", id |-> id]

RsaKeyPair(id) == [kp |-> "Rsa", id |-> id]

\* Sign::key_algorithm (always Some)
key_algorithm(self) ==
    CASE self.kp = "Rsa" -> Rsa
      [] self.kp = "Ed25519" -> Ed25519
      [] self.kp = "Ecdsa" -> Ecdsa(self.curve)

\* Sign::signature_algorithm with an Ed25519 key pair given ECDSA+SHA-256
signature_algorithm_ecdsa_for_ed25519(self) ==
    CASE self.kp = "Rsa" -> RsaSha256
      [] self.kp = "Ecdsa" ->
           (IF self.curve = Secp256r1 THEN EcdsaSha256 ELSE EcdsaSha384)
      [] self.kp = "Ed25519" -> EcdsaSha256

\* Sign::signature_algorithm with every ECDSA key pair given ECDSA+SHA-256
signature_algorithm_fixed_digest(self) ==
    CASE self.kp = "Rsa" -> RsaSha256
      [] self.kp = "Ecdsa" -> EcdsaSha256
      [] self.kp = "Ed25519" -> Ed25519Sig

\* Sign::signature_algorithm (always Ok)
signature_algorithm(self) ==
    CASE self.kp = "Rsa" -> RsaSha256
      [] self.kp = "Ecdsa" ->
           (IF self.curve = Secp256r1 THEN EcdsaSha256 ELSE EcdsaSha384)
      [] self.kp = "Ed25519" -> Ed25519Sig

\* InMemorySigningKeyPair::verification_algorithm: the primitive, or the panic
\* of the expect on resolve_verification_algorithm (key_algorithm is always
\* Some, signature_algorithm always Ok)
verification_algorithm(self) ==
    LET resolved == resolve_verification_algorithm(signature_algorithm(self),
                                                   key_algorithm(self))
    IN  IF is_err(resolved)
        THEN Panic("illegal combination of key algorithm in signature algorithm: this should not occur")
        ELSE Ok(resolved.v)

\* Sign::public_key_data: the bytes of ring's public key.  The bytes of a key
\* have the layout of its family and curve and identify the key material.
public_key_data(self) ==
    CASE self.kp = "Rsa" -> [family |-> "RSA", curve |-> "-", id |-> self.id]
      [] self.kp = "Ed25519" -> [family |-> "ED25519", curve |-> "-", id |-> self.id]
      [] self.kp = "Ecdsa" ->
           [family |-> "ECDSA",
            curve |-> IF self.curve = Secp256r1 THEN "P256" ELSE "P384",
            id |-> self.id]

\* The digest of the signing algorithm ring signs with: RSA_PKCS1_SHA256 for
\* RSA (try_sign), the curve's own for ECDSA (From<EcdsaCurve> for
\* &EcdsaSigningAlgorithm), none to choose for Ed25519.
signing_digest(self) ==
    CASE self.kp = "Rsa" -> "SHA256"
      [] self.kp = "Ed25519" -> "-"
      [] self.kp = "Ecdsa" -> (IF self.curve = Secp256r1 THEN "SHA256" ELSE "SHA384")

\* Signer::try_sign: a signature is the bytes only the holder of the private
\* key can make over this message with this digest.
try_sign(self, msg) ==
    [by |-> public_key_data(self), over |-> msg, digest |-> signing_digest(self)]

\* ring's UnparsedPublicKey::new(algorithm, key).verify(message, signature):
\* the key bytes parse as a key of the algorithm's family and curve, and the
\* signature is that key's over the message with the algorithm's digest.
ring_verify(algorithm, public_key, message, signature) ==
    /\ ring_verification_algorithm(algorithm).family = public_key.family
    /\ ring_verification_algorithm(algorithm).curve = public_key.curve
    /\ signature.by = public_key
    /\ signature.over = message
    /\ signature.digest = ring_verification_algorithm(algorithm).digest

----------------------------------------------------------------------------
(* certificate.rs: X509Certificate, over rfc5280::Certificate.  Encoded bytes *)
(* are a record of the encoded fields, labelled by the ASN.1 type and, for a  *)
(* certificate, the encoding rules the bytes follow.                          *)

\* TbsCertificate::encode_ref: the fields, without raw_data
encode_tbs(tbs) ==
    [asn1 |-> "TbsCertificate",
     version |-> tbs.version,
     serial_number |-> tbs.serial_number,
     signature |-> tbs.signature,
     issuer |-> tbs.issuer,
     validity |-> tbs.validity,
     subject |-> tbs.subject,
     subject_public_key_info |-> tbs.subject_public_key_info,
     extensions |-> tbs.extensions]

\* TbsCertificate::take_from: the fields, and the bytes they were read from
decode_tbs(data) ==
    [version |-> data.version,
     serial_number |-> data.serial_number,
     signature |-> data.signature,
     issuer |-> data.issuer,
     validity |-> data.validity,
     subject |-> data.subject,
     subject_public_key_info |-> data.subject_public_key_info,
     extensions |-> data.extensions,
     raw_data |-> Some(data)]

\* Certificate::take_from
decode_certificate(data) ==
    [tbs_certificate |-> decode_tbs(data.tbs_certificate),
     signature_algorithm |-> data.signature_algorithm,
     signature |-> data.signature]

\* X509Certificate::from_der
X509Certificate_from_der(data) ==
    IF data.asn1 = "Certificate" /\ data.rules = "der"
    THEN Ok(decode_certificate(data))
    ELSE Err("Asn1Parse", <<"malformed DER">>)

\* X509Certificate::from_ber: DER bytes are BER bytes too
X509Certificate_from_ber(data) ==
    IF data.asn1 = "Certificate" /\ data.rules \in {"der", "ber"}
    THEN Ok(decode_certificate(data))
    ELSE Err("Asn1Parse", <<"malformed BER">>)

\* X509Certificate::encode_der: serializes the parsed structure held
encode_der(cert) ==
    [asn1 |-> "Certificate",
     rules |-> "der",
     tbs_certificate |-> encode_tbs(cert.tbs_certificate),
     signature_algorithm |-> cert.signature_algorithm,
     signature |-> cert.signature]

\* X509Certificate::key_algorithm_oid
key_algorithm_oid(cert) ==
    cert.tbs_certificate.subject_public_key_info.algorithm.algorithm

\* X509Certificate::signature_algorithm_oid
signature_algorithm_oid(cert) == cert.tbs_certificate.signature.algorithm

\* X509Certificate::public_key_data
cert_public_key_data(cert) ==
    cert.tbs_certificate.subject_public_key_info.subject_public_key

\* X509Certificate::subject_is_issuer
subject_is_issuer(cert) ==
    cert.tbs_certificate.subject = cert.tbs_certificate.issuer

\* compare_issuer without the rule that a self-signed certificate has no
\* ordering
compare_issuer_no_self_signed_rule(self, other) ==
    IF self.tbs_certificate.issuer = other.tbs_certificate.subject
    THEN "Greater"
    ELSE IF self.tbs_certificate.subject = other.tbs_certificate.issuer
    THEN "Less"
    ELSE "Equal"

\* X509Certificate::compare_issuer; the result is the std::cmp::Ordering
compare_issuer(self, other) ==
    IF self.tbs_certificate.subject = self.tbs_certificate.issuer
    THEN "Equal"
    ELSE IF self.tbs_certificate.issuer = other.tbs_certificate.subject
    THEN "Greater"
    ELSE IF self.tbs_certificate.subject = other.tbs_certificate.issuer
    THEN "Less"
    ELSE "Equal"

\* PEM text is the sequence of the BEGIN/END blocks armored in it, each a tag
\* and the bytes of its payload, or text whose armor is broken.
PemText(blocks) == [armor |-> "pem", malformed |-> FALSE, blocks |-> blocks]

PemBroken == [armor |-> "pem", malformed |-> TRUE, blocks |-> <<>>]

\* pem::parse_many(data).map_err(Error::PemDecode)
pem_parse_many(data) ==
    IF data.malformed THEN Err("PemDecode", <<"malformed framing">>)
    ELSE Ok(data.blocks)

\* Iterator::collect::<Result<Vec<_>, _>>: the values in order, or the first
\* error met
RECURSIVE collect(_)
collect(results) ==
    IF Len(results) = 0 THEN Ok(<<>>)
    ELSE IF is_err(Head(results)) THEN Head(results)
    ELSE IF is_err(collect(Tail(results))) THEN collect(Tail(results))
    ELSE Ok(<<Head(results).v>> \o collect(Tail(results)).v)

\* .filter(|pem| tags.contains(&pem.tag()))
filter_tags(pem, tags) ==
    LET contains(block) == \E i \in 1..Len(tags) : tags[i] = block.tag
    IN  SelectSeq(pem, contains)

\* X509Certificate::from_pem_multiple_tags
X509Certificate_from_pem_multiple_tags(data, tags) ==
    IF is_err(pem_parse_many(data)) THEN pem_parse_many(data)
    ELSE LET kept == filter_tags(pem_parse_many(data).v, tags)
         IN  collect([i \in 1..Len(kept) |-> X509Certificate_from_der(kept[i].contents)])

\* X509Certificate::from_pem_multiple
X509Certificate_from_pem_multiple(data) ==
    X509Certificate_from_pem_multiple_tags(data, <<"CERTIFICATE">>)

\* certificate_is_subset_of comparing the two sequences place by place: the
\* first name has to be a prefix of the second
certificate_is_subset_of_in_order(a_serial, a_name, b_serial, b_name) ==
    IF a_serial # b_serial THEN FALSE
    ELSE /\ Len(a_name) <= Len(b_name)
         /\ \A i \in 1..Len(a_name) : b_name[i] = a_name[i]

\* certificate_is_subset_of; a Name is the sequence of its
\* RelativeDistinguishedNames
certificate_is_subset_of(a_serial, a_name, b_serial, b_name) ==
    IF a_serial # b_serial THEN FALSE
    ELSE \A i \in 1..Len(a_name) : \E j \in 1..Len(b_name) : b_name[j] = a_name[i]

----------------------------------------------------------------------------
(* certificate.rs: CapturedX509Certificate, the original bytes (tagged BER   *)
(* or DER) beside the parsed certificate.                                     *)

\* OriginalData::Der
OriginalDer(data) == [tag |-> "Der", data |-> data]

\* OriginalData::Ber
OriginalBer(data) == [tag |-> "Ber", data |-> data]

\* CapturedX509Certificate::from_der
Captured_from_der(data) ==
    IF is_err(X509Certificate_from_der(data))
    THEN X509Certificate_from_der(data)
    ELSE Ok([original |-> OriginalDer(data),
             inner |-> X509Certificate_from_der(data).v])

\* CapturedX509Certificate::from_ber recording the bytes as DER
Captured_from_ber_tagged_der(data) ==
    IF is_err(X509Certificate_from_ber(data))
    THEN X509Certificate_from_ber(data)
    ELSE Ok([original |-> OriginalDer(data),
             inner |-> X509Certificate_from_ber(data).v])

\* CapturedX509Certificate::from_ber
Captured_from_ber(data) ==
    IF is_err(X509Certificate_from_ber(data))
    THEN X509Certificate_from_ber(data)
    ELSE Ok([original |-> OriginalBer(data),
             inner |-> X509Certificate_from_ber(data).v])

\* CapturedX509Certificate::from_pem_multiple_tags decoding the blocks before
\* it filters them by tag
Captured_from_pem_multiple_tags_decoding_every_block(data, tags) ==
    IF is_err(pem_parse_many(data)) THEN pem_parse_many(data)
    ELSE LET pem == pem_parse_many(data).v
             decoded == [i \in 1..Len(pem) |->
                            [tag |-> pem[i].tag, cert |-> Captured_from_der(pem[i].contents)]]
             kept == filter_tags(decoded, tags)
         IN  IF \E i \in 1..Len(decoded) : is_err(decoded[i].cert)
             THEN (CHOOSE r \in { decoded[i].cert : i \in 1..Len(decoded) } : is_err(r))
             ELSE Ok([i \in 1..Len(kept) |-> kept[i].cert.v])

\* CapturedX509Certificate::from_pem_multiple_tags
Captured_from_pem_multiple_tags(data, tags) ==
    IF is_err(pem_parse_many(data)) THEN pem_parse_many(data)
    ELSE LET kept == filter_tags(pem_parse_many(data).v, tags)
         IN  collect([i \in 1..Len(kept) |-> Captured_from_der(kept[i].contents)])

\* pem::parse(data).map_err(Error::PemDecode): the first block of the text
pem_parse(data) ==
    IF data.malformed \/ Len(data.blocks) = 0
    THEN Err("PemDecode", <<"malformed framing">>)
    ELSE Ok(data.blocks[1])

\* CapturedX509Certificate::from_pem
Captured_from_pem(data) ==
    IF is_err(pem_parse(data)) THEN pem_parse(data)
    ELSE Captured_from_der(pem_parse(data).v.contents)

\* CapturedX509Certificate::from_pem_multiple
Captured_from_pem_multiple(data) ==
    Captured_from_pem_multiple_tags(data, <<"CERTIFICATE">>)

\* CapturedX509Certificate::constructed_data
constructed_data(self) == self.original.data

\* verify_signed_by_public_key, lines 612-615: this certificate decoded again
\* from the original bytes, by the rules of their tag
reparse(self) ==
    IF self.original.tag = "Ber"
    THEN X509Certificate_from_ber(self.original.data)
    ELSE X509Certificate_from_der(self.original.data)

\* The check of a parsed certificate's signature with the signature algorithm
\* resolved before the key algorithm
verify_parsed_signature_algorithm_first(this_cert, public_key_data_) ==
    LET tbs == this_cert.tbs_certificate
        key_alg == KeyAlgorithm_try_from_identifier(tbs.subject_public_key_info.algorithm)
        sig_alg == SignatureAlgorithm_try_from_identifier(this_cert.signature_algorithm)
        verify_algorithm == resolve_verification_algorithm(sig_alg.v, key_alg.v)
    IN  IF tbs.raw_data.tag = "None"
        THEN Panic("original certificate data should have persisted as part of re-parse")
        ELSE IF is_err(sig_alg) THEN sig_alg
        ELSE IF is_err(key_alg) THEN key_alg
        ELSE IF is_err(verify_algorithm) THEN verify_algorithm
        ELSE IF ring_verify(verify_algorithm.v, public_key_data_,
                            tbs.raw_data.v, this_cert.signature)
        THEN Ok("verified")
        ELSE Err("CertificateSignatureVerificationFailed", <<>>)

\* The check of a parsed certificate's signature with the key algorithm taken
\* from the bare key OID, parameters unread
verify_parsed_bare_key_oid(this_cert, public_key_data_) ==
    LET tbs == this_cert.tbs_certificate
        key_alg == KeyAlgorithm_try_from_oid(tbs.subject_public_key_info.algorithm.algorithm)
        sig_alg == SignatureAlgorithm_try_from_identifier(this_cert.signature_algorithm)
        verify_algorithm == resolve_verification_algorithm(sig_alg.v, key_alg.v)
    IN  IF tbs.raw_data.tag = "None"
        THEN Panic("original certificate data should have persisted as part of re-parse")
        ELSE IF is_err(key_alg) THEN key_alg
        ELSE IF is_err(sig_alg) THEN sig_alg
        ELSE IF is_err(verify_algorithm) THEN verify_algorithm
        ELSE IF ring_verify(verify_algorithm.v, public_key_data_,
                            tbs.raw_data.v, this_cert.signature)
        THEN Ok("verified")
        ELSE Err("CertificateSignatureVerificationFailed", <<>>)

\* verify_signed_by_public_key, lines 618-641: the check of a parsed
\* certificate's signature with the key bytes given
verify_parsed(this_cert, public_key_data_) ==
    LET tbs == this_cert.tbs_certificate
        key_alg == KeyAlgorithm_try_from_identifier(tbs.subject_public_key_info.algorithm)
        sig_alg == SignatureAlgorithm_try_from_identifier(this_cert.signature_algorithm)
        verify_algorithm == resolve_verification_algorithm(sig_alg.v, key_alg.v)
    IN  IF tbs.raw_data.tag = "None"
        THEN Panic("original certificate data should have persisted as part of re-parse")
        ELSE IF is_err(key_alg) THEN key_alg
        ELSE IF is_err(sig_alg) THEN sig_alg
        ELSE IF is_err(verify_algorithm) THEN verify_algorithm
        ELSE IF ring_verify(verify_algorithm.v, public_key_data_,
                            tbs.raw_data.v, this_cert.signature)
        THEN Ok("verified")
        ELSE Err("CertificateSignatureVerificationFailed", <<>>)

\* verify_signed_by_public_key checking the parsed view held, not the original
\* bytes
verify_signed_by_public_key_held_view(self, public_key_data_) ==
    verify_parsed(self.inner, public_key_data_)

\* CapturedX509Certificate::verify_signed_by_public_key
verify_signed_by_public_key(self, public_key_data_) ==
    IF is_err(reparse(self))
    THEN Panic("certificate re-parse should never fail")
    ELSE verify_parsed(reparse(self).v, public_key_data_)

\* CapturedX509Certificate::verify_signed_by_certificate; other is the
\* X509Certificate the argument gives a reference to
verify_signed_by_certificate(self, other) ==
    verify_signed_by_public_key(self, cert_public_key_data(other))

\* CapturedX509Certificate::verify_signed_data_with_algorithm
verify_signed_data_with_algorithm(self, signed_data, signature, verify_algorithm) ==
    IF ring_verify(verify_algorithm, cert_public_key_data(self.inner),
                   signed_data, signature)
    THEN Ok("verified")
    ELSE Err("CertificateSignatureVerificationFailed", <<>>)

\* CapturedX509Certificate::verify_signed_data
verify_signed_data(self, signed_data, signature) ==
    LET key_alg == KeyAlgorithm_try_from_oid(key_algorithm_oid(self.inner))
        sig_alg == SignatureAlgorithm_try_from_oid(signature_algorithm_oid(self.inner))
        verify_algorithm == resolve_verification_algorithm(sig_alg.v, key_alg.v)
    IN  IF is_err(key_alg) THEN key_alg
        ELSE IF is_err(sig_alg) THEN sig_alg
        ELSE IF is_err(verify_algorithm) THEN verify_algorithm
        ELSE verify_signed_data_with_algorithm(self, signed_data, signature,
                                               verify_algorithm.v)

\* impl PartialEq for CapturedX509Certificate, comparing the tagged original
\* as the derived PartialEq of OriginalData would
captured_eq_tagged(self, other) == self.original = other.original

\* impl PartialEq for CapturedX509Certificate
captured_eq(self, other) == constructed_data(self) = constructed_data(other)

\* impl Hash for CapturedX509Certificate: what the hasher is fed
captured_hash(self) == <<constructed_data(self)>>

\* impl TryFrom<X509Certificate> for CapturedX509Certificate
Captured_try_from(cert) == Captured_from_der(encode_der(cert))

\* impl From<CapturedX509Certificate> for MutableX509Certificate
Mutable_from(cert) == [captured |-> cert]

\* impl DerefMut for MutableX509Certificate, and an assignment through the
\* reference it gives: the parsed view changes, the original bytes do not
deref_mut_assign(self, view) ==
    [captured |-> [self.captured EXCEPT !.inner = view]]

----------------------------------------------------------------------------
(* certificate.rs: X509CertificateBuilder *)

\* impl Default for X509CertificateBuilder; now is the time of the call
X509CertificateBuilder_default(now) ==
    [subject |-> <<>>,
     issuer |-> None,
     extensions |-> <<>>,
     serial_number |-> 1,
     not_before |-> now,
     not_after |-> now + 60,
     csr_attributes |-> <<>>]

\* X509CertificateBuilder::issuer: the builder after the call, which holds
\* an issuer, an empty one (Name::default) if none was defined before
X509CertificateBuilder_issuer(self) ==
    IF self.issuer = None THEN [self EXCEPT !.issuer = Some(<<>>)] ELSE self

\* enum KeyUsage
KeyUsage ==
    {"DigitalSignature", "NonRepudiation", "KeyEncipherment", "DataEncipherment",
     "KeyAgreement", "KeyCertSign", "CrlSign"}

\* impl From<KeyUsage> for u8
KeyUsage_into_u8(ku) ==
    CASE ku = "DigitalSignature" -> 0
      [] ku = "NonRepudiation" -> 1
      [] ku = "KeyEncipherment" -> 2
      [] ku = "DataEncipherment" -> 3
      [] ku = "KeyAgreement" -> 4
      [] ku = "KeyCertSign" -> 5
      [] ku = "CrlSign" -> 6

\* Bit i of a byte, bit 0 the least significant.
BitOf(byte, i) == (byte \div 2^i) % 2

RECURSIVE BitOrUpTo(_, _, _)
BitOrUpTo(a, b, i) ==
    IF i < 0 THEN 0
    ELSE (IF BitOf(a, i) = 1 \/ BitOf(b, i) = 1 THEN 2^i ELSE 0) + BitOrUpTo(a, b, i - 1)

\* a | b on u8
BitOr(a, b) == BitOrUpTo(a, b, 7)

\* X509CertificateBuilder::key_usage: the builder after the call
key_usage(self, ku) ==
    LET value == KeyUsage_into_u8(ku)
    IN  [self EXCEPT !.extensions =
            Append(@, [id |-> OID_EXTENSION_KEY_USAGE,
                       critical |-> Some(TRUE),
                       value |-> <<3, 2, 7, BitOr(128, value)>>])]

\* The TbsCertificate of create_with_key_pair with the subject copied to the
\* issuer field whether or not an issuer was defined
builder_tbs_certificate_subject_as_issuer(self, key_pair) ==
    [version |-> Some("V3"),
     serial_number |-> self.serial_number,
     signature |-> SignatureAlgorithm_into_identifier(signature_algorithm(key_pair)),
     issuer |-> self.subject,
     validity |-> [not_before |-> self.not_before, not_after |-> self.not_after],
     subject |-> self.subject,
     subject_public_key_info |->
        [algorithm |-> KeyAlgorithm_into_identifier(key_algorithm(key_pair)),
         subject_public_key |-> public_key_data(key_pair)],
     extensions |-> IF Len(self.extensions) = 0 THEN None ELSE Some(self.extensions),
     raw_data |-> None]

\* X509CertificateBuilder::create_with_key_pair, lines 994-1025: the
\* TbsCertificate
builder_tbs_certificate(self, key_pair) ==
    [version |-> Some("V3"),
     serial_number |-> self.serial_number,
     signature |-> SignatureAlgorithm_into_identifier(signature_algorithm(key_pair)),
     issuer |-> IF self.issuer.tag = "Some" THEN self.issuer.v ELSE self.subject,
     validity |-> [not_before |-> self.not_before, not_after |-> self.not_after],
     subject |-> self.subject,
     subject_public_key_info |->
        [algorithm |-> KeyAlgorithm_into_identifier(key_algorithm(key_pair)),
         subject_public_key |-> public_key_data(key_pair)],
     extensions |-> IF Len(self.extensions) = 0 THEN None ELSE Some(self.extensions),
     raw_data |-> None]

\* create_with_key_pair returning the certificate it assembled beside the
\* bytes it encoded, without parsing those bytes again
create_with_key_pair_without_reparse(self, key_pair) ==
    LET tbs_certificate == builder_tbs_certificate(self, key_pair)
        tbs_der == encode_tbs(tbs_certificate)
        signature == try_sign(key_pair, tbs_der)
        cert == [tbs_certificate |-> tbs_certificate,
                 signature_algorithm |->
                    SignatureAlgorithm_into_identifier(signature_algorithm(key_pair)),
                 signature |-> signature]
    IN  Ok([original |-> OriginalDer(encode_der(cert)), inner |-> cert])

\* X509CertificateBuilder::create_with_key_pair
create_with_key_pair(self, key_pair) ==
    LET tbs_certificate == builder_tbs_certificate(self, key_pair)
        tbs_der == encode_tbs(tbs_certificate)
        signature == try_sign(key_pair, tbs_der)
        cert == [tbs_certificate |-> tbs_certificate,
                 signature_algorithm |->
                    SignatureAlgorithm_into_identifier(signature_algorithm(key_pair)),
                 signature |-> signature]
    IN  Captured_from_der(encode_der(cert))

----------------------------------------------------------------------------
(* The registry as a state machine: each action is one call. *)

\* No registry call is in the state.
IdleAlg ==
    /\ alg_call = [fn |-> "none"]
    /\ alg_ret = Ok("none")

\* No certificate is held.
IdleCert ==
    /\ held_cert = None
    /\ held_other = None
    /\ held_key_pair = None
    /\ held_mutable = None
    /\ cert_call = [fn |-> "none"]
    /\ cert_ret = Ok("none")

\* A reference to a captured certificate (&'a CapturedX509Certificate) is the
\* name of the certificate it refers to; NoRef is a local not yet assigned.
NoRef == "-"

\* No chain resolution is under way.
IdleChain ==
    /\ rsc_call = "none"
    /\ rsc_self = NoRef
    /\ rsc_candidates = <<>>
    /\ rsc_iter = 1
    /\ rsc_seen = {}
    /\ rsc_remaining = <<>>
    /\ rsc_chain = <<>>
    /\ rsc_last_cert = NoRef
    /\ rsc_pc = "idle"
    /\ rsc_found = None

\* The tasks that run execute_with_circuit_breaker at the same time.
Tasks == {"t1", "t2"}

\* CircuitBreaker::new(threshold, timeout), and no task in a call
NewBreaker(threshold) ==
    /\ cb_status = "Closed"
    /\ cb_failure_count = 0
    /\ cb_last_failure_time = None
    /\ cb_threshold = threshold
    /\ cb_now = 0
    /\ cb_pc = [t \in Tasks |-> "idle"]
    /\ cb_count = [t \in Tasks |-> 0]

\* A circuit breaker no task uses.
IdleBreaker == NewBreaker(1)

InitAlg == IdleAlg /\ IdleCert /\ IdleChain /\ IdleBreaker

CallResolveVerificationAlgorithm ==
    /\ \E sa \in SignatureAlgorithm, ka \in KeyAlgorithm :
        /\ alg_call' = [fn |-> "resolve_verification_algorithm",
                        self |-> sa, key_algorithm |-> ka]
        /\ alg_ret' = resolve_verification_algorithm(sa, ka)
    /\ UNCHANGED <<certVars, chainVars, cbVars>>

CallFromOidAndDigestAlgorithm ==
    /\ \E oid \in Oids, d \in DigestAlgorithm :
        /\ alg_call' = [fn |-> "from_oid_and_digest_algorithm",
                        oid |-> oid, digest_algorithm |-> d]
        /\ alg_ret' = from_oid_and_digest_algorithm(oid, d)
    /\ UNCHANGED <<certVars, chainVars, cbVars>>

\* DigestAlgorithm::try_from(&Oid)
CallDigestAlgorithmTryFromOid ==
    /\ \E oid \in Oids :
        /\ alg_call' = [fn |-> "DigestAlgorithm::try_from", oid |-> oid]
        /\ alg_ret' = DigestAlgorithm_try_from_oid(oid)
    /\ UNCHANGED <<certVars, chainVars, cbVars>>

\* Oid::from(DigestAlgorithm)
CallDigestAlgorithmIntoOid ==
    /\ \E d \in DigestAlgorithm :
        /\ alg_call' = [fn |-> "Oid::from(DigestAlgorithm)", alg |-> d]
        /\ alg_ret' = Ok(DigestAlgorithm_into_oid(d))
    /\ UNCHANGED <<certVars, chainVars, cbVars>>

\* SignatureAlgorithm::try_from(&Oid)
CallSignatureAlgorithmTryFromOid ==
    /\ \E oid \in Oids :
        /\ alg_call' = [fn |-> "SignatureAlgorithm::try_from", oid |-> oid]
        /\ alg_ret' = SignatureAlgorithm_try_from_oid(oid)
    /\ UNCHANGED <<certVars, chainVars, cbVars>>

\* Oid::from(SignatureAlgorithm)
CallSignatureAlgorithmIntoOid ==
    /\ \E sa \in SignatureAlgorithm :
        /\ alg_call' = [fn |-> "Oid::from(SignatureAlgorithm)", alg |-> sa]
        /\ alg_ret' = Ok(SignatureAlgorithm_into_oid(sa))
    /\ UNCHANGED <<certVars, chainVars, cbVars>>

\* KeyAlgorithm::try_from(&Oid)
CallKeyAlgorithmTryFromOid ==
    /\ \E oid \in Oids :
        /\ alg_call' = [fn |-> "KeyAlgorithm::try_from", oid |-> oid]
        /\ alg_ret' = KeyAlgorithm_try_from_oid(oid)
    /\ UNCHANGED <<certVars, chainVars, cbVars>>

\* Oid::from(KeyAlgorithm)
CallKeyAlgorithmIntoOid ==
    /\ \E ka \in KeyAlgorithm :
        /\ alg_call' = [fn |-> "Oid::from(KeyAlgorithm)", alg |-> ka]
        /\ alg_ret' = Ok(KeyAlgorithm_into_oid(ka))
    /\ UNCHANGED <<certVars, chainVars, cbVars>>

\* The parameters an AlgorithmIdentifier is given: none, the NULL, an OID, or
\* some other value.
AlgorithmParameters ==
    {None, Some(ParamNull), Some(ParamOther)} \cup { Some(ParamOid(o)) : o \in Oids }

\* KeyAlgorithm::try_from(&AlgorithmIdentifier)
CallKeyAlgorithmTryFromIdentifier ==
    /\ \E oid \in Oids, parameters \in AlgorithmParameters :
        /\ alg_call' = [fn |-> "KeyAlgorithm::try_from(&AlgorithmIdentifier)",
                        v |-> AlgorithmIdentifier(oid, parameters)]
        /\ alg_ret' = KeyAlgorithm_try_from_identifier(AlgorithmIdentifier(oid, parameters))
    /\ UNCHANGED <<certVars, chainVars, cbVars>>

\* The longest target length rsa_pkcs1_encode is called with: past 128, the
\* length of a 1024-bit RSA modulus.
MaxTargetLen == 129

\* The messages digested are numbered from 1 to MaxMessage.
MaxMessage == 2

\* DigestAlgorithm::rsa_pkcs1_encode
CallRsaPkcs1Encode ==
    /\ alg_call.fn = "none"
    /\ \E d \in DigestAlgorithm, message \in 1..MaxMessage, target \in 0..MaxTargetLen :
        /\ alg_call' = [fn |-> "rsa_pkcs1_encode", self |-> d, message |-> message,
                        target_length_in_bytes |-> target]
        /\ alg_ret' = rsa_pkcs1_encode(d, message, target)
    /\ UNCHANGED <<certVars, chainVars, cbVars>>

NextAlg ==
    \/ CallResolveVerificationAlgorithm
    \/ CallFromOidAndDigestAlgorithm
    \/ CallDigestAlgorithmTryFromOid
    \/ CallDigestAlgorithmIntoOid
    \/ CallSignatureAlgorithmTryFromOid
    \/ CallSignatureAlgorithmIntoOid
    \/ CallKeyAlgorithmTryFromOid
    \/ CallKeyAlgorithmIntoOid
    \/ CallKeyAlgorithmTryFromIdentifier

SpecAlg == InitAlg /\ [][NextAlg]_vars

\* The calls of rsa_pkcs1_encode alone; a behaviour is one call.
NextPkcs1 ==
    \/ CallRsaPkcs1Encode

SpecPkcs1 == InitAlg /\ [][NextPkcs1]_vars

----------------------------------------------------------------------------
(* The inputs of the certificate operations. *)

\* Key pairs of each kind are told apart by an identity in 1..MaxKeyId.
MaxKeyId == 1

KeyIds == 1..MaxKeyId

\* InMemorySigningKeyPair::generate_random: a fresh key pair of the algorithm;
\* RSA key pairs are not generated
generate_random(key_alg) ==
    CASE key_alg.ka = "Ed25519" -> { Ok(Ed25519KeyPair(i)) : i \in KeyIds }
      [] key_alg.ka = "Ecdsa" -> { Ok(EcdsaKeyPair(key_alg.curve, i)) : i \in KeyIds }
      [] key_alg.ka = "Rsa" -> { Err("RsaKeyGenerationNotSupported", <<>>) }

\* InMemorySigningKeyPair::from_pkcs8_der: the key pairs a PKCS#8 document can
\* hold, RSA ones included
KeyPairs ==
    { Ed25519KeyPair(i) : i \in KeyIds } \cup { RsaKeyPair(i) : i \in KeyIds }
      \cup { EcdsaKeyPair(c, i) : c \in EcdsaCurve, i \in KeyIds }

\* The bytes of a certificate that a certificate authority holding signer
\* issued to the holder of subject_key: the subject's key in the
\* SubjectPublicKeyInfo, the signer's signature algorithm in both algorithm
\* fields, and the signer's signature over the DER of the TbsCertificate.
issue(serial, subject, subject_key, issuer, signer) ==
    LET tbs == [version |-> Some("V3"),
                serial_number |-> serial,
                signature |-> SignatureAlgorithm_into_identifier(signature_algorithm(signer)),
                issuer |-> issuer,
                validity |-> [not_before |-> 0, not_after |-> 60],
                subject |-> subject,
                subject_public_key_info |->
                    [algorithm |-> KeyAlgorithm_into_identifier(key_algorithm(subject_key)),
                     subject_public_key |-> public_key_data(subject_key)],
                extensions |-> None,
                raw_data |-> None]
    IN  encode_der([tbs_certificate |-> tbs,
                    signature_algorithm |->
                        SignatureAlgorithm_into_identifier(signature_algorithm(signer)),
                    signature |-> try_sign(signer, encode_tbs(tbs))])

\* A certificate authority with a P-256 key, and certificates it issued.
CaKey == EcdsaKeyPair(Secp256r1, 1)

CaName == <<"CN=ca">>

InP256Root == issue(1, CaName, CaKey, CaName, CaKey)

InEd25519Leaf == issue(2, <<"CN=ed">>, Ed25519KeyPair(1), CaName, CaKey)

InP256Leaf == issue(3, <<"CN=p256">>, EcdsaKeyPair(Secp256r1, 2), CaName, CaKey)

InP384Leaf == issue(4, <<"CN=p384">>, EcdsaKeyPair(Secp384r1, 1), CaName, CaKey)

\* testdata/ecdsa-p512-sha256-self-signed.cer: a self-signed certificate whose
\* subject key is an EC key on secp521r1, signed with ecdsa-with-SHA256
InP521SelfSigned ==
    LET key == [family |-> "ECDSA", curve |-> "P521", id |-> 1]
        tbs == [version |-> Some("V3"),
                serial_number |-> 5,
                signature |-> SignatureAlgorithm_into_identifier(EcdsaSha256),
                issuer |-> <<"CN=p521">>,
                validity |-> [not_before |-> 0, not_after |-> 60],
                subject |-> <<"CN=p521">>,
                subject_public_key_info |->
                    [algorithm |-> AlgorithmIdentifier(OID_EC_PUBLIC_KEY,
                                                       Some(ParamOid(OID_EC_SECP521R1))),
                     subject_public_key |-> key],
                extensions |-> None,
                raw_data |-> None]
    IN  encode_der([tbs_certificate |-> tbs,
                    signature_algorithm |-> SignatureAlgorithm_into_identifier(EcdsaSha256),
                    signature |-> [by |-> key, over |-> encode_tbs(tbs), digest |-> "SHA256"]])

\* The P-256 leaf in an encoding that is BER and not DER.
InBerLeaf == [InP256Leaf EXCEPT !.rules = "ber"]

\* Bytes that are no certificate.
InGarbage == [asn1 |-> "garbage"]

InputBytes ==
    {InP256Root, InEd25519Leaf, InP256Leaf, InP384Leaf, InP521SelfSigned, InBerLeaf,
     InGarbage}

\* The builders the model creates certificates with: the default one, and one
\* with a subject and an issuer.
Builders ==
    { X509CertificateBuilder_default(0),
      [X509CertificateBuilder_default(0) EXCEPT !.subject = <<"CN=me">>,
                                                 !.issuer = Some(CaName)] }

\* The messages verify_signed_data is called with.
Messages == { [asn1 |-> "data", content |-> "hello"],
              [asn1 |-> "data", content |-> "world"] }

\* The values a caller assigns through the mutable wrapper.
ViewChanges(view) ==
    { [view EXCEPT !.signature_algorithm = SignatureAlgorithm_into_identifier(Ed25519Sig)],
      [view EXCEPT !.tbs_certificate.subject_public_key_info =
            [algorithm |-> KeyAlgorithm_into_identifier(Ed25519),
             subject_public_key |-> public_key_data(Ed25519KeyPair(1))]] }

----------------------------------------------------------------------------
(* The certificate operations as a state machine: a caller constructs       *)
(* certificates, converts one into a mutable wrapper, assigns through it,   *)
(* and calls the read-only operations.                                      *)

\* The object a slot name stands for.
Held(slot) ==
    CASE slot = "cert" -> held_cert
      [] slot = "other" -> held_other
      [] slot = "mutable" ->
           IF held_mutable = None THEN None ELSE Some(held_mutable.v.captured)

HeldSlots == { slot \in {"cert", "other", "mutable"} : Held(slot) # None }

\* CapturedX509Certificate::from_der and from_ber on input bytes
Construct(fn, data) ==
    IF fn = "from_der" THEN Captured_from_der(data) ELSE Captured_from_ber(data)

LoadCert ==
    /\ held_cert = None
    /\ \E fn \in {"from_der", "from_ber"}, data \in InputBytes :
        /\ cert_call' = [fn |-> fn, slot |-> "cert", data |-> data]
        /\ cert_ret' = Construct(fn, data)
        /\ held_cert' = IF is_ok(Construct(fn, data)) THEN Some(Construct(fn, data).v) ELSE None
    /\ UNCHANGED <<held_other, held_key_pair, held_mutable>>
    /\ UNCHANGED <<algVars, chainVars, cbVars>>

LoadOther ==
    /\ held_other = None
    /\ \E fn \in {"from_der"}, data \in InputBytes \ {InP521SelfSigned} :
        /\ cert_call' = [fn |-> fn, slot |-> "other", data |-> data]
        /\ cert_ret' = Construct(fn, data)
        /\ held_other' = IF is_ok(Construct(fn, data)) THEN Some(Construct(fn, data).v) ELSE None
    /\ UNCHANGED <<held_cert, held_key_pair, held_mutable>>
    /\ UNCHANGED <<algVars, chainVars, cbVars>>

\* X509CertificateBuilder::create_with_key_pair with a key pair the caller has
CreateWithKeyPair ==
    /\ held_cert = None
    /\ \E builder \in Builders, kp \in KeyPairs :
        /\ cert_call' = [fn |-> "create_with_key_pair", slot |-> "cert",
                         issuer |-> builder.issuer]
        /\ cert_ret' = create_with_key_pair(builder, kp)
        /\ held_cert' = Some(create_with_key_pair(builder, kp).v)
        /\ held_key_pair' = Some(kp)
    /\ UNCHANGED <<held_other, held_mutable>>
    /\ UNCHANGED <<algVars, chainVars, cbVars>>

\* X509CertificateBuilder::create_with_random_keypair
CreateWithRandomKeypair ==
    /\ held_cert = None
    /\ \E builder \in Builders, key_alg \in KeyAlgorithm :
       \E kp \in generate_random(key_alg) :
        /\ cert_call' = [fn |-> "create_with_random_keypair", slot |-> "cert",
                         issuer |-> builder.issuer]
        /\ IF is_err(kp)
           THEN cert_ret' = kp /\ UNCHANGED <<held_cert, held_key_pair>>
           ELSE /\ cert_ret' = create_with_key_pair(builder, kp.v)
                /\ held_cert' = Some(create_with_key_pair(builder, kp.v).v)
                /\ held_key_pair' = Some(kp.v)
    /\ UNCHANGED <<held_other, held_mutable>>
    /\ UNCHANGED <<algVars, chainVars, cbVars>>

\* MutableX509Certificate::from(cert.clone())
IntoMutable ==
    /\ held_cert # None
    /\ held_mutable = None
    /\ held_mutable' = Some(Mutable_from(held_cert.v))
    /\ cert_call' = [fn |-> "into_mutable", slot |-> "cert"]
    /\ cert_ret' = Ok("converted")
    /\ UNCHANGED <<held_cert, held_other, held_key_pair>>
    /\ UNCHANGED <<algVars, chainVars, cbVars>>

\* An assignment to the certificate through DerefMut and AsMut
MutateView ==
    /\ held_mutable # None
    /\ \E view \in ViewChanges(held_mutable.v.captured.inner) :
        held_mutable' = Some(deref_mut_assign(held_mutable.v, view))
    /\ cert_call' = [fn |-> "deref_mut", slot |-> "mutable"]
    /\ cert_ret' = Ok("assigned")
    /\ UNCHANGED <<held_cert, held_other, held_key_pair>>
    /\ UNCHANGED <<algVars, chainVars, cbVars>>

CallVerifySignedByCertificate ==
    /\ \E self \in HeldSlots, issuer \in HeldSlots :
        /\ cert_call' = [fn |-> "verify_signed_by_certificate",
                         slot |-> self, other |-> issuer]
        /\ cert_ret' = verify_signed_by_certificate(Held(self).v, Held(issuer).v.inner)
    /\ UNCHANGED <<held_cert, held_other, held_key_pair, held_mutable>>
    /\ UNCHANGED <<algVars, chainVars, cbVars>>

CallVerifySignedByPublicKey ==
    /\ \E self \in HeldSlots, kp \in KeyPairs :
        /\ cert_call' = [fn |-> "verify_signed_by_public_key",
                         slot |-> self, public_key_data |-> public_key_data(kp)]
        /\ cert_ret' = verify_signed_by_public_key(Held(self).v, public_key_data(kp))
    /\ UNCHANGED <<held_cert, held_other, held_key_pair, held_mutable>>
    /\ UNCHANGED <<algVars, chainVars, cbVars>>

\* verify_signed_data on a message and a key pair's signature over it
CallVerifySignedData ==
    /\ held_cert # None
    /\ \E m \in Messages, signer \in KeyPairs :
        /\ cert_call' = [fn |-> "verify_signed_data", slot |-> "cert",
                         signed_data |-> m, signer |-> signer]
        /\ cert_ret' = verify_signed_data(held_cert.v, m, try_sign(signer, m))
    /\ UNCHANGED <<held_cert, held_other, held_key_pair, held_mutable>>
    /\ UNCHANGED <<algVars, chainVars, cbVars>>

\* a == b on two certificates held, and the comparison of what each feeds a
\* hasher
CallEq ==
    /\ \E a \in HeldSlots, b \in HeldSlots :
        /\ cert_call' = [fn |-> "eq", slot |-> a, other |-> b]
        /\ cert_ret' = Ok([eq |-> captured_eq(Held(a).v, Held(b).v),
                           same_hash |-> captured_hash(Held(a).v) = captured_hash(Held(b).v)])
    /\ UNCHANGED <<held_cert, held_other, held_key_pair, held_mutable>>
    /\ UNCHANGED <<algVars, chainVars, cbVars>>

\* X509Certificate::encode_der through Deref
CallEncodeDer ==
    /\ \E self \in HeldSlots :
        /\ cert_call' = [fn |-> "encode_der", slot |-> self]
        /\ cert_ret' = Ok(encode_der(Held(self).v.inner))
    /\ UNCHANGED <<held_cert, held_other, held_key_pair, held_mutable>>
    /\ UNCHANGED <<algVars, chainVars, cbVars>>

\* X509Certificate::from_der on the bytes encode_der gives for a certificate
\* held
CallFromDerOfEncodeDer ==
    /\ \E self \in HeldSlots :
        /\ cert_call' = [fn |-> "from_der(encode_der)", slot |-> self]
        /\ cert_ret' = X509Certificate_from_der(encode_der(Held(self).v.inner))
    /\ UNCHANGED <<held_cert, held_other, held_key_pair, held_mutable>>
    /\ UNCHANGED <<algVars, chainVars, cbVars>>

NextCert ==
    \/ LoadCert
    \/ LoadOther
    \/ CreateWithKeyPair
    \/ CreateWithRandomKeypair
    \/ IntoMutable
    \/ MutateView
    \/ CallVerifySignedByCertificate
    \/ CallVerifySignedByPublicKey
    \/ CallVerifySignedData
    \/ CallEq
    \/ CallEncodeDer
    \/ CallFromDerOfEncodeDer

InitCert == IdleCert /\ IdleAlg /\ IdleChain /\ IdleBreaker

SpecCert == InitCert /\ [][NextCert]_vars

----------------------------------------------------------------------------
(* find_signing_certificate and resolve_signing_chain as a state machine:   *)
(* a call of resolve_signing_chain takes one step per candidate of the for  *)
(* loop, then one step per turn of the while loop.                          *)

\* The most candidates a call is given.
MaxCands == 3

IntermediateKey == EcdsaKeyPair(Secp256r1, 2)

LeafKey == EcdsaKeyPair(Secp256r1, 3)

CrossKey == EcdsaKeyPair(Secp256r1, 4)

\* The self-signed root.
ChRoot == Captured_from_der(InP256Root).v

\* The root certified again by its own key, with another serial number: the
\* bytes differ, the key and the names do not.
ChRoot2 == Captured_from_der(issue(10, CaName, CaKey, CaName, CaKey)).v

\* The intermediate, signed by the root's key.
ChInter == Captured_from_der(issue(5, <<"CN=inter">>, IntermediateKey, CaName, CaKey)).v

\* The intermediate's key certified again, by the cross key.
ChInter2 ==
    Captured_from_der(issue(6, <<"CN=inter">>, IntermediateKey, <<"CN=x">>, CrossKey)).v

\* The cross key, certified by the intermediate's key: ChInter2 and ChX each
\* verify the other.
ChX == Captured_from_der(issue(7, <<"CN=x">>, CrossKey, <<"CN=inter">>, IntermediateKey)).v

\* The leaf, signed by the intermediate's key.
ChLeaf ==
    Captured_from_der(issue(8, <<"CN=leaf">>, LeafKey, <<"CN=inter">>, IntermediateKey)).v

\* The same bytes as the leaf, captured with from_ber.
ChLeafBer == Captured_from_ber(constructed_data(ChLeaf)).v

\* An Ed25519-keyed leaf, signed by the intermediate's key.
ChEdLeaf ==
    Captured_from_der(
        issue(9, <<"CN=ed">>, Ed25519KeyPair(1), <<"CN=inter">>, IntermediateKey)).v

\* The certificate a reference refers to.
At(ref) ==
    CASE ref = "root" -> ChRoot
      [] ref = "root2" -> ChRoot2
      [] ref = "inter" -> ChInter
      [] ref = "inter2" -> ChInter2
      [] ref = "x" -> ChX
      [] ref = "leaf" -> ChLeaf
      [] ref = "leaf_ber" -> ChLeafBer
      [] ref = "ed_leaf" -> ChEdLeaf

ChainCandidates == {"root", "root2", "inter", "inter2", "x", "leaf", "leaf_ber"}

ChainSelves == {"leaf", "inter", "x", "ed_leaf", "root"}

CandidateLists == UNION { [1..n -> ChainCandidates] : n \in 0..MaxCands }

\* The certificates a reference can refer to.
CertRefs == ChainCandidates \cup ChainSelves

\* self.verify_signed_by_certificate(candidate), for each pair of references;
\* the call is a function of the two certificates.
verify_signed_by_certificate_at ==
    [self \in CertRefs |->
        [candidate \in CertRefs |->
            verify_signed_by_certificate(At(self), At(candidate).inner)]]

\* find_signing_certificate returning the first candidate, verified or not
find_signing_certificate_unverified(self, certs) ==
    IF Len(certs) = 0 THEN None ELSE Some(Head(certs))

\* find_signing_certificate returning the last candidate that verifies
RECURSIVE find_signing_certificate_last(_, _)
find_signing_certificate_last(self, certs) ==
    IF Len(certs) = 0 THEN None
    ELSE IF is_ok(verify_signed_by_certificate_at[self][certs[Len(certs)]])
    THEN Some(certs[Len(certs)])
    ELSE find_signing_certificate_last(self, SubSeq(certs, 1, Len(certs) - 1))

\* CapturedX509Certificate::find_signing_certificate: Iterator::find with the
\* predicate verify_signed_by_certificate(candidate).is_ok()
RECURSIVE find_signing_certificate(_, _)
find_signing_certificate(self, certs) ==
    IF Len(certs) = 0 THEN None
    ELSE IF is_ok(verify_signed_by_certificate_at[self][Head(certs)])
    THEN Some(Head(certs))
    ELSE find_signing_certificate(self, Tail(certs))

\* The body of the for loop without the comparison with self
for_body_keeping_self(self, seen, remaining, cert) ==
    IF \E s \in seen : /\ captured_hash(At(s)) = captured_hash(At(cert))
                        /\ captured_eq(At(s), At(cert))
    THEN [seen |-> seen, remaining |-> remaining]
    ELSE [seen |-> seen \cup {cert}, remaining |-> Append(remaining, cert)]

\* resolve_signing_chain, lines 691-698: the body of the for loop on one
\* candidate.  seen is a HashSet of references, keyed by the hash and the
\* equality of the certificates referred to.
for_body(self, seen, remaining, cert) ==
    IF captured_eq(At(cert), At(self))
       \/ \E s \in seen : /\ captured_hash(At(s)) = captured_hash(At(cert))
                          /\ captured_eq(At(s), At(cert))
    THEN [seen |-> seen, remaining |-> remaining]
    ELSE [seen |-> seen \cup {cert}, remaining |-> Append(remaining, cert)]

\* Vec::drain(..).filter(|cert| *cert != issuer).collect()
drain_filter(remaining, issuer) ==
    SelectSeq(remaining, LAMBDA c : ~captured_eq(At(c), At(issuer)))

\* The body of the while loop with last_cert left on the certificate before
while_body_keeping_last_cert(chain, last_cert, remaining, issuer) ==
    [chain |-> Append(chain, issuer),
     last_cert |-> last_cert,
     remaining |-> drain_filter(remaining, issuer)]

\* The body of the while loop with the issuer left among the candidates
while_body_keeping_issuer(chain, last_cert, remaining, issuer) ==
    [chain |-> Append(chain, issuer),
     last_cert |-> issuer,
     remaining |-> remaining]

\* resolve_signing_chain, lines 704-711: the body of the while loop
while_body(chain, last_cert, remaining, issuer) ==
    [chain |-> Append(chain, issuer),
     last_cert |-> issuer,
     remaining |-> drain_filter(remaining, issuer)]

\* self.find_signing_certificate(certs), called by the caller
CallFindSigningCertificate ==
    /\ rsc_pc = "idle"
    /\ \E self \in ChainSelves, certs \in CandidateLists :
        /\ rsc_call' = "find_signing_certificate"
        /\ rsc_self' = self
        /\ rsc_candidates' = certs
        /\ rsc_found' = find_signing_certificate(self, certs)
    /\ rsc_pc' = "done"
    /\ UNCHANGED <<rsc_iter, rsc_seen, rsc_remaining, rsc_chain, rsc_last_cert>>
    /\ UNCHANGED <<algVars, certVars, cbVars>>

\* self.resolve_signing_chain(certs): entry, lines 686-687
CallResolveSigningChain ==
    /\ rsc_pc = "idle"
    /\ \E self \in ChainSelves, certs \in CandidateLists :
        /\ rsc_self' = self
        /\ rsc_candidates' = certs
    /\ rsc_call' = "resolve_signing_chain"
    /\ rsc_iter' = 1
    /\ rsc_seen' = {}
    /\ rsc_remaining' = <<>>
    /\ rsc_pc' = "for"
    /\ UNCHANGED <<rsc_chain, rsc_last_cert, rsc_found>>
    /\ UNCHANGED <<algVars, certVars, cbVars>>

\* lines 689-696: one candidate of the for loop
ForCert ==
    /\ rsc_pc = "for"
    /\ rsc_iter <= Len(rsc_candidates)
    /\ LET r == for_body(rsc_self, rsc_seen, rsc_remaining, rsc_candidates[rsc_iter])
       IN  /\ rsc_seen' = r.seen
           /\ rsc_remaining' = r.remaining
    /\ rsc_iter' = rsc_iter + 1
    /\ UNCHANGED <<rsc_call, rsc_self, rsc_candidates, rsc_chain, rsc_last_cert,
                   rsc_pc, rsc_found>>
    /\ UNCHANGED <<algVars, certVars, cbVars>>

\* lines 698-702: the iterator is exhausted; drop(seen), chain and last_cert
ForEnd ==
    /\ rsc_pc = "for"
    /\ rsc_iter > Len(rsc_candidates)
    /\ rsc_seen' = {}
    /\ rsc_chain' = <<>>
    /\ rsc_last_cert' = rsc_self
    /\ rsc_pc' = "while"
    /\ UNCHANGED <<rsc_call, rsc_self, rsc_candidates, rsc_iter, rsc_remaining, rsc_found>>
    /\ UNCHANGED <<algVars, certVars, cbVars>>

\* lines 703-710: one turn of the while loop, an issuer found
WhileSome ==
    /\ rsc_pc = "while"
    /\ find_signing_certificate(rsc_last_cert, rsc_remaining) # None
    /\ LET issuer == find_signing_certificate(rsc_last_cert, rsc_remaining).v
           r == while_body(rsc_chain, rsc_last_cert, rsc_remaining, issuer)
       IN  /\ rsc_chain' = r.chain
           /\ rsc_last_cert' = r.last_cert
           /\ rsc_remaining' = r.remaining
    /\ UNCHANGED <<rsc_call, rsc_self, rsc_candidates, rsc_iter, rsc_seen, rsc_pc, rsc_found>>
    /\ UNCHANGED <<algVars, certVars, cbVars>>

\* lines 703 and 713: no issuer found; the chain is returned
WhileNone ==
    /\ rsc_pc = "while"
    /\ find_signing_certificate(rsc_last_cert, rsc_remaining) = None
    /\ rsc_pc' = "done"
    /\ UNCHANGED <<rsc_call, rsc_self, rsc_candidates, rsc_iter, rsc_seen, rsc_remaining,
                   rsc_chain, rsc_last_cert, rsc_found>>
    /\ UNCHANGED <<algVars, certVars, cbVars>>

NextChain ==
    \/ CallFindSigningCertificate
    \/ CallResolveSigningChain
    \/ ForCert
    \/ ForEnd
    \/ WhileSome
    \/ WhileNone

InitChain == IdleChain /\ IdleAlg /\ IdleCert /\ IdleBreaker

\* The call runs on one thread that is not stopped: each step of the loops
\* that can be taken is taken.
SpecChain ==
    /\ InitChain
    /\ [][NextChain]_vars
    /\ WF_vars(ForCert) /\ WF_vars(ForEnd) /\ WF_vars(WhileSome) /\ WF_vars(WhileNone)

----------------------------------------------------------------------------
(* The operations on parsed certificates and names that hold no state, as a *)
(* state machine: each action is one call on inputs the caller supplies,    *)
(* and a behaviour is one call.                                             *)

\* a.compare_issuer(&b) on two of the certificates of the chain inputs
CallCompareIssuer ==
    /\ cert_call.fn = "none"
    /\ \E a \in CertRefs, b \in CertRefs :
        /\ cert_call' = [fn |-> "compare_issuer", self |-> a, other |-> b]
        /\ cert_ret' = Ok(compare_issuer(At(a).inner, At(b).inner))
    /\ UNCHANGED <<held_cert, held_other, held_key_pair, held_mutable>>
    /\ UNCHANGED <<algVars, chainVars, cbVars>>

\* The most RelativeDistinguishedNames a name holds.
MaxRdns == 2

\* The serial numbers are 1 to MaxSerial.
MaxSerial == 2

\* The names certificate_is_subset_of is called with.
Names == UNION { [1..n -> {"C=US", "O=acme", "CN=a"}] : n \in 0..MaxRdns }

CallCertificateIsSubsetOf ==
    /\ cert_call.fn = "none"
    /\ \E a_serial \in 1..MaxSerial, b_serial \in 1..MaxSerial,
          a_name \in Names, b_name \in Names :
        /\ cert_call' = [fn |-> "certificate_is_subset_of",
                         a_serial |-> a_serial, a_name |-> a_name,
                         b_serial |-> b_serial, b_name |-> b_name]
        /\ cert_ret' = Ok(certificate_is_subset_of(a_serial, a_name, b_serial, b_name))
    /\ UNCHANGED <<held_cert, held_other, held_key_pair, held_mutable>>
    /\ UNCHANGED <<algVars, chainVars, cbVars>>

\* The most blocks a PEM text holds.
MaxBlocks == 2

\* The blocks of the PEM texts: a tag with the DER of a certificate or with
\* bytes that are no certificate.
PemBlocks ==
    { [tag |-> t, contents |-> c] :
        t \in {"CERTIFICATE", "TRUSTED CERTIFICATE", "PRIVATE KEY"},
        c \in {InP256Root, InP256Leaf, InGarbage} }

PemTexts ==
    {PemBroken} \cup
    { PemText(blocks) : blocks \in UNION { [1..n -> PemBlocks] : n \in 0..MaxBlocks } }

\* The tags a caller allows.
TagLists ==
    { <<"CERTIFICATE">>, <<"TRUSTED CERTIFICATE", "CERTIFICATE">>, <<"PRIVATE KEY">> }

\* from_pem_multiple of X509Certificate and of CapturedX509Certificate
CallFromPemMultiple ==
    /\ cert_call.fn = "none"
    /\ \E type \in {"X509Certificate", "CapturedX509Certificate"}, data \in PemTexts :
        /\ cert_call' = [fn |-> "from_pem_multiple", type |-> type, data |-> data,
                         tags |-> <<"CERTIFICATE">>]
        /\ cert_ret' = IF type = "X509Certificate"
                       THEN X509Certificate_from_pem_multiple(data)
                       ELSE Captured_from_pem_multiple(data)
    /\ UNCHANGED <<held_cert, held_other, held_key_pair, held_mutable>>
    /\ UNCHANGED <<algVars, chainVars, cbVars>>

\* from_pem_multiple_tags of X509Certificate and of CapturedX509Certificate
CallFromPemMultipleTags ==
    /\ cert_call.fn = "none"
    /\ \E type \in {"X509Certificate", "CapturedX509Certificate"}, data \in PemTexts,
          tags \in TagLists :
        /\ cert_call' = [fn |-> "from_pem_multiple_tags", type |-> type, data |-> data,
                         tags |-> tags]
        /\ cert_ret' = IF type = "X509Certificate"
                       THEN X509Certificate_from_pem_multiple_tags(data, tags)
                       ELSE Captured_from_pem_multiple_tags(data, tags)
    /\ UNCHANGED <<held_cert, held_other, held_key_pair, held_mutable>>
    /\ UNCHANGED <<algVars, chainVars, cbVars>>

\* The key pairs the algorithm accessors are called on: of every kind and
\* curve, and of more than one key material.
AccessorKeyPairs ==
    KeyPairs \cup { Ed25519KeyPair(MaxKeyId + 1), RsaKeyPair(MaxKeyId + 1) }
      \cup { EcdsaKeyPair(c, MaxKeyId + 1) : c \in EcdsaCurve }

\* key_pair.signature_algorithm()
CallSignatureAlgorithm ==
    /\ cert_call.fn = "none"
    /\ \E kp \in AccessorKeyPairs :
        /\ cert_call' = [fn |-> "signature_algorithm", self |-> kp]
        /\ cert_ret' = Ok(signature_algorithm(kp))
    /\ UNCHANGED <<held_cert, held_other, held_key_pair, held_mutable>>
    /\ UNCHANGED <<algVars, chainVars, cbVars>>

\* key_pair.verification_algorithm()
CallVerificationAlgorithm ==
    /\ cert_call.fn = "none"
    /\ \E kp \in AccessorKeyPairs :
        /\ cert_call' = [fn |-> "verification_algorithm", self |-> kp]
        /\ cert_ret' = verification_algorithm(kp)
    /\ UNCHANGED <<held_cert, held_other, held_key_pair, held_mutable>>
    /\ UNCHANGED <<algVars, chainVars, cbVars>>

\* The builders key_usage is called on: a new one, and ones that hold
\* extensions already.
KeyUsageBuilders ==
    { X509CertificateBuilder_default(0) } \cup
    { key_usage(X509CertificateBuilder_default(0), ku) : ku \in KeyUsage }

\* builder.key_usage(flag); the builder after the call is the result
CallKeyUsage ==
    /\ cert_call.fn = "none"
    /\ \E builder \in KeyUsageBuilders, ku \in KeyUsage :
        /\ cert_call' = [fn |-> "key_usage", self |-> builder, key_usage |-> ku]
        /\ cert_ret' = Ok(key_usage(builder, ku))
    /\ UNCHANGED <<held_cert, held_other, held_key_pair, held_mutable>>
    /\ UNCHANGED <<algVars, chainVars, cbVars>>

\* The builders create_with_key_pair is called on: the caller wrote a name
\* through subject(), and either never called issuer() or called it and wrote
\* a name through the reference it returns.
CreateBuilders ==
    { [X509CertificateBuilder_default(0) EXCEPT !.subject = s] : s \in Names } \cup
    { [X509CertificateBuilder_issuer(X509CertificateBuilder_default(0))
          EXCEPT !.subject = s, !.issuer.v = i] : s \in Names, i \in Names }

\* builder.create_with_key_pair(&key_pair)
CallCreateWithKeyPair ==
    /\ cert_call.fn = "none"
    /\ \E builder \in CreateBuilders, kp \in KeyPairs :
        /\ cert_call' = [fn |-> "create_with_key_pair", self |-> builder,
                         key_pair |-> kp]
        /\ cert_ret' = create_with_key_pair(builder, kp)
    /\ UNCHANGED <<held_cert, held_other, held_key_pair, held_mutable>>
    /\ UNCHANGED <<algVars, chainVars, cbVars>>

\* The algorithm identifiers of the subject's key in the certificates
\* verify_signed_by_public_key is called on: of no key algorithm, EC with a
\* curve that is not handled, EC with parameters that are no OID, RSA with
\* parameters that are not NULL, and those of a P-256 and of an Ed25519 key.
VerifyKeyIdentifiers ==
    { AlgorithmIdentifier(OID_SHA256, None),
      AlgorithmIdentifier(OID_EC_PUBLIC_KEY, Some(ParamOid(OID_EC_SECP521R1))),
      AlgorithmIdentifier(OID_EC_PUBLIC_KEY, Some(ParamOther)),
      AlgorithmIdentifier(OID_RSA, Some(ParamOther)),
      KeyAlgorithm_into_identifier(Ecdsa(Secp256r1)),
      KeyAlgorithm_into_identifier(Ed25519) }

\* The outer signature algorithm identifiers of those certificates: of no
\* signature algorithm handled, and of three that are.
VerifySignatureIdentifiers ==
    { AlgorithmIdentifier(OID_NO_SIGNATURE_ALGORITHM, None),
      SignatureAlgorithm_into_identifier(EcdsaSha256),
      SignatureAlgorithm_into_identifier(Ed25519Sig),
      SignatureAlgorithm_into_identifier(RsaSha256) }

\* The bytes of a certificate with these algorithm identifiers, signed by
\* signer over the TbsCertificate, the signature left intact or not.
certificate_bytes(key_identifier, signature_identifier, signer, intact) ==
    LET tbs == [version |-> Some("V3"),
                serial_number |-> 11,
                signature |-> signature_identifier,
                issuer |-> CaName,
                validity |-> [not_before |-> 0, not_after |-> 60],
                subject |-> <<"CN=subject">>,
                subject_public_key_info |->
                    [algorithm |-> key_identifier,
                     subject_public_key |-> public_key_data(signer)],
                extensions |-> None,
                raw_data |-> None]
        signature == try_sign(signer, encode_tbs(tbs))
    IN  encode_der([tbs_certificate |-> tbs,
                    signature_algorithm |-> signature_identifier,
                    signature |-> IF intact THEN signature
                                  ELSE [signature EXCEPT !.over = [asn1 |-> "corrupted"]]])

\* cert.verify_signed_by_public_key(public_key_data) on a certificate read
\* with from_der
CallVerifySignedByPublicKeyOf ==
    /\ cert_call.fn = "none"
    /\ \E key_identifier \in VerifyKeyIdentifiers,
          signature_identifier \in VerifySignatureIdentifiers,
          signer \in {EcdsaKeyPair(Secp256r1, 1), Ed25519KeyPair(1)},
          intact \in BOOLEAN, kp \in KeyPairs :
        LET self == Captured_from_der(certificate_bytes(key_identifier,
                        signature_identifier, signer, intact)).v
        IN  /\ cert_call' = [fn |-> "verify_signed_by_public_key", self |-> self,
                             public_key_data |-> public_key_data(kp)]
            /\ cert_ret' = verify_signed_by_public_key(self, public_key_data(kp))
    /\ UNCHANGED <<held_cert, held_other, held_key_pair, held_mutable>>
    /\ UNCHANGED <<algVars, chainVars, cbVars>>

\* The parsed certificates CapturedX509Certificate::try_from is called on:
\* read from DER and from BER bytes, and changed by their holder since.
ParsedCertificates ==
    LET read == { X509Certificate_from_ber(data).v :
                    data \in { d \in InputBytes : is_ok(X509Certificate_from_ber(d)) } }
    IN  read \cup UNION { ViewChanges(view) : view \in read }

\* CapturedX509Certificate::from_der, from_ber and from_pem on bytes, and
\* try_from on a parsed certificate
CallCapture ==
    /\ cert_call.fn = "none"
    /\ \/ \E data \in InputBytes :
            /\ cert_call' = [fn |-> "from_der", type |-> "CapturedX509Certificate",
                             data |-> data]
            /\ cert_ret' = Captured_from_der(data)
       \/ \E data \in InputBytes :
            /\ cert_call' = [fn |-> "from_ber", type |-> "CapturedX509Certificate",
                             data |-> data]
            /\ cert_ret' = Captured_from_ber(data)
       \/ \E data \in PemTexts :
            /\ cert_call' = [fn |-> "from_pem", type |-> "CapturedX509Certificate",
                             data |-> data]
            /\ cert_ret' = Captured_from_pem(data)
       \/ \E cert \in ParsedCertificates :
            /\ cert_call' = [fn |-> "try_from", type |-> "CapturedX509Certificate",
                             data |-> cert]
            /\ cert_ret' = Captured_try_from(cert)
    /\ UNCHANGED <<held_cert, held_other, held_key_pair, held_mutable>>
    /\ UNCHANGED <<algVars, chainVars, cbVars>>

NextX509 ==
    \/ CallCompareIssuer
    \/ CallCapture
    \/ CallVerifySignedByPublicKeyOf
    \/ CallCreateWithKeyPair
    \/ CallKeyUsage
    \/ CallSignatureAlgorithm
    \/ CallVerificationAlgorithm
    \/ CallCertificateIsSubsetOf
    \/ CallFromPemMultiple
    \/ CallFromPemMultipleTags

SpecX509 == InitCert /\ [][NextX509]_vars

----------------------------------------------------------------------------
(* network.rs: CircuitBreaker, shared by the tasks that run                  *)
(* execute_with_circuit_breaker.  status and last_failure_time are each      *)
(* behind their own Mutex and failure_count is an atomic: a step is one      *)
(* atomic operation or one critical section, and the steps of the tasks      *)
(* interleave.                                                               *)

\* The largest threshold a breaker is made with.
MaxThreshold == 2

\* timeout, in seconds.
Timeout == 1

\* The clock is followed up to this second.
MaxTime == 3

\* failure_count (an AtomicU64) is followed up to this value.
MaxFailures == 3

\* CircuitBreaker::can_execute, under the lock of status: the status after
\* the call and the value returned
can_execute(status, last_failure_time, now) ==
    CASE status = "Closed" -> [status |-> status, ret |-> TRUE]
      [] status = "Open" ->
           IF last_failure_time.tag = "Some"
           THEN IF now - last_failure_time.v > Timeout
                THEN [status |-> "HalfOpen", ret |-> TRUE]
                ELSE [status |-> status, ret |-> FALSE]
           ELSE [status |-> status, ret |-> FALSE]
      [] status = "HalfOpen" -> [status |-> status, ret |-> TRUE]

\* execute_with_circuit_breaker, lines 237-239: can_execute; the task goes on
\* to the operation, or returns "Circuit breaker is open"
CanExecute ==
    \E t \in Tasks :
        /\ cb_pc[t] = "idle"
        /\ LET r == can_execute(cb_status, cb_last_failure_time, cb_now)
           IN  /\ cb_status' = r.status
               /\ cb_pc' = [cb_pc EXCEPT ![t] = IF r.ret THEN "operation" ELSE "idle"]
        /\ UNCHANGED <<cb_failure_count, cb_last_failure_time, cb_threshold, cb_now, cb_count>>
        /\ UNCHANGED <<algVars, certVars, chainVars>>

\* The operation returned Ok; record_success, line 81: failure_count.store(0)
RecordSuccessStore ==
    \E t \in Tasks :
        /\ cb_pc[t] = "operation"
        /\ cb_failure_count' = 0
        /\ cb_pc' = [cb_pc EXCEPT ![t] = "success_stored"]
        /\ UNCHANGED <<cb_status, cb_last_failure_time, cb_threshold, cb_now, cb_count>>
        /\ UNCHANGED <<algVars, certVars, chainVars>>

\* record_success, line 82: *status.lock() = Closed
RecordSuccessClose ==
    \E t \in Tasks :
        /\ cb_pc[t] = "success_stored"
        /\ cb_status' = "Closed"
        /\ cb_pc' = [cb_pc EXCEPT ![t] = "idle"]
        /\ UNCHANGED <<cb_failure_count, cb_last_failure_time, cb_threshold, cb_now, cb_count>>
        /\ UNCHANGED <<algVars, certVars, chainVars>>

\* The operation returned Err; record_failure, line 86:
\* count = failure_count.fetch_add(1) + 1
RecordFailureAdd ==
    \E t \in Tasks :
        /\ cb_pc[t] = "operation"
        /\ cb_failure_count < MaxFailures
        /\ cb_failure_count' = cb_failure_count + 1
        /\ cb_count' = [cb_count EXCEPT ![t] = cb_failure_count + 1]
        /\ cb_pc' = [cb_pc EXCEPT ![t] = "failure_counted"]
        /\ UNCHANGED <<cb_status, cb_last_failure_time, cb_threshold, cb_now>>
        /\ UNCHANGED <<algVars, certVars, chainVars>>

\* record_failure, line 87: *last_failure_time.lock() = Some(Utc::now())
RecordFailureTime ==
    \E t \in Tasks :
        /\ cb_pc[t] = "failure_counted"
        /\ cb_last_failure_time' = Some(cb_now)
        /\ cb_pc' = [cb_pc EXCEPT ![t] = "failure_timed"]
        /\ UNCHANGED <<cb_status, cb_failure_count, cb_threshold, cb_now, cb_count>>
        /\ UNCHANGED <<algVars, certVars, chainVars>>

\* record_failure, lines 89-92: if count >= threshold, *status.lock() = Open
RecordFailureOpen ==
    \E t \in Tasks :
        /\ cb_pc[t] = "failure_timed"
        /\ cb_status' = IF cb_count[t] >= cb_threshold THEN "Open" ELSE cb_status
        /\ cb_count' = [cb_count EXCEPT ![t] = 0]
        /\ cb_pc' = [cb_pc EXCEPT ![t] = "idle"]
        /\ UNCHANGED <<cb_failure_count, cb_last_failure_time, cb_threshold, cb_now>>
        /\ UNCHANGED <<algVars, certVars, chainVars>>

\* A second passes.
Tick ==
    /\ cb_now < MaxTime
    /\ cb_now' = cb_now + 1
    /\ UNCHANGED <<cb_status, cb_failure_count, cb_last_failure_time, cb_threshold,
                   cb_pc, cb_count>>
    /\ UNCHANGED <<algVars, certVars, chainVars>>

NextBreaker ==
    \/ CanExecute
    \/ RecordSuccessStore
    \/ RecordSuccessClose
    \/ RecordFailureAdd
    \/ RecordFailureTime
    \/ RecordFailureOpen
    \/ Tick

InitBreaker ==
    /\ IdleAlg /\ IdleCert /\ IdleChain
    /\ \E threshold \in 1..MaxThreshold : NewBreaker(threshold)

SpecBreaker == InitBreaker /\ [][NextBreaker]_vars

----------------------------------------------------------------------------
(* Claims about the algorithm registry, checked under SpecAlg. *)

\* The signature algorithms that name RSA with a digest.
RsaSignatures == {RsaSha1, RsaSha256, RsaSha384, RsaSha512}

\* The digest a signature algorithm's name states.
StatedDigest(sa) ==
    CASE sa \in {RsaSha1} -> "SHA1"
      [] sa \in {RsaSha256, EcdsaSha256} -> "SHA256"
      [] sa \in {RsaSha384, EcdsaSha384} -> "SHA384"
      [] sa \in {RsaSha512} -> "SHA512"
      [] OTHER -> "-"

\* The pairings the registry documents as legal.
LegalPairing(sa, ka) ==
    \/ ka = Rsa /\ sa \in RsaSignatures
    \/ ka = Ed25519 /\ sa = Ed25519Sig
    \/ ka \in {Ecdsa(Secp256r1), Ecdsa(Secp384r1)} /\ sa \in {EcdsaSha256, EcdsaSha384}

\* The primitive a legal pairing selects: that of the key's family and curve
\* and of the signature algorithm's digest.
PairingPrimitive(sa, ka) ==
    [family |-> CASE ka.ka = "Rsa" -> "RSA" [] ka.ka = "Ed25519" -> "ED25519"
                  [] ka.ka = "Ecdsa" -> "ECDSA",
     curve |-> IF ka.ka = "Ecdsa"
               THEN (IF ka.curve = Secp256r1 THEN "P256" ELSE "P384")
               ELSE "-",
     digest |-> StatedDigest(sa)]

\* C8: resolve_verification_algorithm succeeds exactly for an RSA key with
\* RSA+SHA-1/256/384/512, an Ed25519 key with Ed25519, and an ECDSA key on
\* P-256 or P-384 with ECDSA+SHA-256 or ECDSA+SHA-384, selecting the primitive
\* of that curve and digest; every other pairing, every NoSignature(d) included,
\* returns UnsupportedSignatureVerification carrying the key algorithm and the
\* signature algorithm given.
C8_ResolveVerificationLegalPairings ==
    alg_call.fn = "resolve_verification_algorithm" =>
        IF LegalPairing(alg_call.self, alg_call.key_algorithm)
        THEN /\ is_ok(alg_ret)
             /\ ring_verification_algorithm(alg_ret.v)
                    = PairingPrimitive(alg_call.self, alg_call.key_algorithm)
        ELSE /\ is_err(alg_ret)
             /\ alg_ret.kind = "UnsupportedSignatureVerification"
             /\ alg_ret.detail = <<alg_call.key_algorithm, alg_call.self>>

\* C8 witness: a P-256 key paired with ECDSA+SHA-384 was resolved.
C8_Witness ==
    /\ alg_call.fn = "resolve_verification_algorithm"
    /\ alg_call.key_algorithm = Ecdsa(Secp256r1)
    /\ alg_call.self = EcdsaSha384
    /\ alg_ret = Ok("ECDSA_P256_SHA384_ASN1")

\* The OIDs that name a signature algorithm other than no-signature, with the
\* variant each names.
SignatureOidVariant(oid) ==
    CASE oid = OID_SHA1_RSA -> RsaSha1
      [] oid = OID_SHA256_RSA -> RsaSha256
      [] oid = OID_SHA384_RSA -> RsaSha384
      [] oid = OID_SHA512_RSA -> RsaSha512
      [] oid = OID_ECDSA_SHA256 -> EcdsaSha256
      [] oid = OID_ECDSA_SHA384 -> EcdsaSha384
      [] oid = OID_ED25519_SIGNATURE_ALGORITHM -> Ed25519Sig

SignatureOids ==
    { OID_SHA1_RSA, OID_SHA256_RSA, OID_SHA384_RSA, OID_SHA512_RSA,
      OID_ECDSA_SHA256, OID_ECDSA_SHA384, OID_ED25519_SIGNATURE_ALGORITHM }

\* The RSA variant of a digest.
RsaVariant(d) ==
    CASE d = Sha1 -> RsaSha1 [] d = Sha256 -> RsaSha256
      [] d = Sha384 -> RsaSha384 [] d = Sha512 -> RsaSha512

UnknownSignatureAlgorithm(r) ==
    is_err(r) /\ r.kind = "UnknownSignatureAlgorithm"

\* C10: from_oid_and_digest_algorithm(oid, fallback): (1) a signature OID gives
\* its variant whatever the fallback digest; (2) otherwise the RSA key OID gives
\* the RSA variant of the fallback, the EC public key OID gives ECDSA+SHA-256 or
\* ECDSA+SHA-384 for those digests and UnknownSignatureAlgorithm for SHA-1 and
\* SHA-512, an Ed25519 OID gives Ed25519; (3) any OID other than these and the
\* no-signature OID gives UnknownSignatureAlgorithm.
C10_TwoTierResolver ==
    alg_call.fn = "from_oid_and_digest_algorithm" =>
        LET oid == alg_call.oid
            d == alg_call.digest_algorithm
        IN  CASE oid \in SignatureOids -> alg_ret = Ok(SignatureOidVariant(oid))
              [] oid = OID_RSA -> alg_ret = Ok(RsaVariant(d))
              [] oid = OID_EC_PUBLIC_KEY /\ d = Sha256 -> alg_ret = Ok(EcdsaSha256)
              [] oid = OID_EC_PUBLIC_KEY /\ d = Sha384 -> alg_ret = Ok(EcdsaSha384)
              [] oid = OID_EC_PUBLIC_KEY /\ d \in {Sha1, Sha512} ->
                    UnknownSignatureAlgorithm(alg_ret)
              [] oid = OID_ED25519_KEY_AGREEMENT -> alg_ret = Ok(Ed25519Sig)
              [] oid = OID_NO_SIGNATURE_ALGORITHM -> TRUE
              [] OTHER -> UnknownSignatureAlgorithm(alg_ret)

\* C10 witness: the RSA+SHA-1 OID resolved with fallback SHA-256.
C10_Witness ==
    /\ alg_call.fn = "from_oid_and_digest_algorithm"
    /\ alg_call.oid = OID_SHA1_RSA
    /\ alg_call.digest_algorithm = Sha256
    /\ alg_ret = Ok(RsaSha1)

\* C11: NoSignature is many-to-one.  Oid::from(NoSignature(d)) is the
\* no-signature OID 1.3.6.1.5.5.7.6.2 for every digest d;
\* from_oid_and_digest_algorithm on that OID returns NoSignature(fallback) for
\* every fallback digest; and SignatureAlgorithm::try_from on that OID is
\* refused with UnknownSignatureAlgorithm.
C11_NoSignatureManyToOne ==
    /\ (alg_call.fn = "Oid::from(SignatureAlgorithm)"
            /\ alg_call.alg \in { NoSignature(d) : d \in DigestAlgorithm })
        => alg_ret = Ok("1.3.6.1.5.5.7.6.2")
    /\ (alg_call.fn = "from_oid_and_digest_algorithm"
            /\ alg_call.oid = "1.3.6.1.5.5.7.6.2")
        => alg_ret = Ok(NoSignature(alg_call.digest_algorithm))
    /\ (alg_call.fn = "SignatureAlgorithm::try_from"
            /\ alg_call.oid = "1.3.6.1.5.5.7.6.2")
        => UnknownSignatureAlgorithm(alg_ret)

\* C11 witness: the no-signature OID was resolved with fallback SHA-512 and
\* gave NoSignature(SHA-512).
C11_Witness ==
    /\ alg_call.fn = "from_oid_and_digest_algorithm"
    /\ alg_call.oid = OID_NO_SIGNATURE_ALGORITHM
    /\ alg_call.digest_algorithm = Sha512
    /\ alg_ret = Ok(NoSignature(Sha512))

\* The OIDs of the table that name a digest algorithm.
DigestOids ==
    { "1.3.14.3.2.26", "2.16.840.1.101.3.4.2.1", "2.16.840.1.101.3.4.2.2",
      "2.16.840.1.101.3.4.2.3" }

\* The OIDs of the table that name a key algorithm: RSA, EC public key, and the
\* two Ed25519 OIDs.
KeyAlgorithmOids ==
    { "1.2.840.113549.1.1.1", "1.2.840.10045.2.1", "1.3.101.110", "1.3.101.112" }

\* The last call resolved an OID of its class and the variant it gave maps back
\* to that OID, or mapped a variant to an OID that resolves to that variant:
\* for the digest OIDs and variants, the signature OIDs and the variants other
\* than NoSignature, and the key-algorithm OIDs and variants given.
RoundTripOver(key_oids, key_variants) ==
    /\ (alg_call.fn = "DigestAlgorithm::try_from" /\ alg_call.oid \in DigestOids)
        => (is_ok(alg_ret) /\ DigestAlgorithm_into_oid(alg_ret.v) = alg_call.oid)
    /\ (alg_call.fn = "SignatureAlgorithm::try_from" /\ alg_call.oid \in SignatureOids)
        => (is_ok(alg_ret) /\ SignatureAlgorithm_into_oid(alg_ret.v) = alg_call.oid)
    /\ (alg_call.fn = "KeyAlgorithm::try_from" /\ alg_call.oid \in key_oids)
        => (is_ok(alg_ret) /\ KeyAlgorithm_into_oid(alg_ret.v) = alg_call.oid)
    /\ alg_call.fn = "Oid::from(DigestAlgorithm)"
        => DigestAlgorithm_try_from_oid(alg_ret.v) = Ok(alg_call.alg)
    /\ (alg_call.fn = "Oid::from(SignatureAlgorithm)" /\ alg_call.alg.sa # "NoSignature")
        => SignatureAlgorithm_try_from_oid(alg_ret.v) = Ok(alg_call.alg)
    /\ (alg_call.fn = "Oid::from(KeyAlgorithm)" /\ alg_call.alg \in key_variants)
        => KeyAlgorithm_try_from_oid(alg_ret.v) = Ok(alg_call.alg)

\* C12 as stated: for every OID of the table (the digest OIDs, the signature
\* OIDs other than no-signature, and the key-algorithm OIDs, the EC public key
\* OID and both Ed25519 OIDs 1.3.101.110 and 1.3.101.112 included), resolving
\* the OID and mapping the variant back gives the same OID; and for every
\* variant of DigestAlgorithm, of SignatureAlgorithm other than NoSignature, and
\* of KeyAlgorithm (RSA, ECDSA(P-256), ECDSA(P-384), Ed25519), mapping it to its
\* OID and resolving that OID gives the same variant.
C12_OidVariantRoundTrip ==
    RoundTripOver(KeyAlgorithmOids, KeyAlgorithm)

\* C12 amended: the round trip holds in both directions for the digest OIDs
\* and variants, for the signature OIDs and variants other than NoSignature,
\* and for the key-algorithm OIDs RSA, EC public key and 1.3.101.110 and the
\* variants RSA, ECDSA(P-384) and Ed25519.  The OID 1.3.101.112 resolves to
\* Ed25519, which maps back to 1.3.101.110; ECDSA(P-256) maps to the EC public
\* key OID, which resolves to ECDSA(P-384).
C12_RoundTripButEd25519SignatureOidAndP256 ==
    /\ RoundTripOver(KeyAlgorithmOids \ {"1.3.101.112"},
                     KeyAlgorithm \ {Ecdsa(Secp256r1)})
    /\ (alg_call.fn = "KeyAlgorithm::try_from" /\ alg_call.oid = "1.3.101.112")
        => (alg_ret = Ok(Ed25519) /\ KeyAlgorithm_into_oid(alg_ret.v) = "1.3.101.110")
    /\ (alg_call.fn = "Oid::from(KeyAlgorithm)" /\ alg_call.alg = Ecdsa(Secp256r1))
        => ( /\ alg_ret = Ok("1.2.840.10045.2.1")
             /\ KeyAlgorithm_try_from_oid(alg_ret.v) = Ok(Ecdsa(Secp384r1)) )

\* C12 witness: ECDSA(P-256) was mapped to the EC public key OID.
C12_Witness ==
    /\ alg_call.fn = "Oid::from(KeyAlgorithm)"
    /\ alg_call.alg = Ecdsa(Secp256r1)
    /\ alg_ret = Ok(OID_EC_PUBLIC_KEY)

\* Parameters that are absent or are exactly the ASN.1 NULL (05 00).
AbsentOrNull(parameters) ==
    parameters = [tag |-> "None"] \/ parameters = [tag |-> "Some", v |-> [p |-> "null"]]

\* Parameters that are present and are the OID given.
IsOidParameter(parameters, oid) ==
    parameters = [tag |-> "Some", v |-> [p |-> "oid", oid |-> oid]]

\* Parameters that are present and are an OID.
IsSomeOidParameter(parameters) ==
    parameters.tag = "Some" /\ parameters.v.p = "oid"

\* C13: KeyAlgorithm from a full AlgorithmIdentifier.  For the RSA OID and the
\* two Ed25519 OIDs it succeeds iff the parameters are absent or are the ASN.1
\* NULL, and any other parameters give UnhandledKeyAlgorithmParameters.  For
\* the EC public key OID, parameters that are the P-256 or P-384 curve OID give
\* ECDSA with that curve, any other curve OID gives UnknownEllipticCurve, and
\* absent parameters give the placeholder ECDSA(P-384).
C13_KeyAlgorithmFromIdentifier ==
    alg_call.fn = "KeyAlgorithm::try_from(&AlgorithmIdentifier)" =>
        LET oid == alg_call.v.algorithm
            parameters == alg_call.v.parameters
        IN  /\ oid = "1.2.840.113549.1.1.1" =>
                IF AbsentOrNull(parameters) THEN alg_ret = Ok(Rsa)
                ELSE is_err(alg_ret) /\ alg_ret.kind = "UnhandledKeyAlgorithmParameters"
            /\ oid \in {"1.3.101.110", "1.3.101.112"} =>
                IF AbsentOrNull(parameters) THEN alg_ret = Ok(Ed25519)
                ELSE is_err(alg_ret) /\ alg_ret.kind = "UnhandledKeyAlgorithmParameters"
            /\ oid = "1.2.840.10045.2.1" =>
                /\ parameters = None => alg_ret = Ok(Ecdsa(Secp384r1))
                /\ IsOidParameter(parameters, "1.2.840.10045.3.1.7")
                        => alg_ret = Ok(Ecdsa(Secp256r1))
                /\ IsOidParameter(parameters, "1.3.132.0.34")
                        => alg_ret = Ok(Ecdsa(Secp384r1))
                /\ ( /\ IsSomeOidParameter(parameters)
                      /\ ~IsOidParameter(parameters, "1.2.840.10045.3.1.7")
                      /\ ~IsOidParameter(parameters, "1.3.132.0.34") )
                        => (is_err(alg_ret) /\ alg_ret.kind = "UnknownEllipticCurve")

\* C13 witness: the EC public key OID with the P-256 curve OID as parameters
\* resolved to ECDSA(P-256), not the placeholder.
C13_Witness ==
    /\ alg_call.fn = "KeyAlgorithm::try_from(&AlgorithmIdentifier)"
    /\ alg_call.v = AlgorithmIdentifier(OID_EC_PUBLIC_KEY, Some(ParamOid(OID_EC_SECP256R1)))
    /\ alg_ret = Ok(Ecdsa(Secp256r1))

----------------------------------------------------------------------------
(* Claims about rsa_pkcs1_encode, checked under SpecPkcs1. *)

\* n bytes of 0xFF.
Padding(n) == [i \in 1..n |-> 255]

\* The DER DigestInfo of the last rsa_pkcs1_encode call, and the raw digest of
\* its message.
CallDigest == digest_data(alg_call.self, alg_call.message)

CallDigestInfo == digest_info_der(alg_call.self, CallDigest)

\* C16: for every digest algorithm and every target length L >= 128,
\* rsa_pkcs1_encode returns exactly L bytes: 0x00, 0x01, then
\* L - len(DigestInfo) - 3 bytes of 0xFF, then 0x00, then the DER DigestInfo.
\* The output begins 0x00 0x01 and its last digest-length bytes are the raw
\* digest of the message; for SHA-256 and L = 128, bytes [96..] are the digest.
C16_Pkcs1Layout ==
    (alg_call.fn = "rsa_pkcs1_encode" /\ alg_call.target_length_in_bytes >= 128) =>
        LET L == alg_call.target_length_in_bytes
        IN  /\ is_ok(alg_ret)
            /\ Len(alg_ret.v) = L
            /\ alg_ret.v = <<0, 1>> \o Padding(L - Len(CallDigestInfo) - 3) \o <<0>>
                               \o CallDigestInfo
            /\ SubSeq(alg_ret.v, 1, 2) = <<0, 1>>
            /\ SubSeq(alg_ret.v, L - Len(CallDigest) + 1, L) = CallDigest
            /\ (alg_call.self = Sha256 /\ L = 128)
                => (Len(CallDigest) = 32 /\ SubSeq(alg_ret.v, 97, 128) = CallDigest)

\* C16 witness: SHA-256 with target length 128 gave 128 bytes that begin
\* 0x00 0x01 0xFF.
C16_Witness ==
    /\ alg_call.fn = "rsa_pkcs1_encode"
    /\ alg_call.self = Sha256
    /\ alg_call.target_length_in_bytes = 128
    /\ is_ok(alg_ret)
    /\ SubSeq(alg_ret.v, 1, 3) = <<0, 1, 255>>

\* The 0xFF bytes of the padding of an encoded block: those between the block
\* type byte and the 0x00 that ends the padding.
PaddingBytes(res) ==
    LET end == CHOOSE i \in 3..Len(res) : res[i] = 0 /\ \A j \in 3..(i - 1) : res[j] = 255
    IN  end - 3

\* C17: rsa_pkcs1_encode fails with PkcsEncodeTooShort iff
\* len(DigestInfo) + 11 > target_length_in_bytes; when it succeeds the padding
\* holds at least 8 bytes of 0xFF; and for no target length, 0 and the lengths
\* shorter than the DigestInfo included, does the call panic on the
\* subtraction that gives the pad length or on an index out of range.
C17_Pkcs1TooShort ==
    alg_call.fn = "rsa_pkcs1_encode" =>
        /\ alg_ret.tag # "Panic"
        /\ (is_err(alg_ret) /\ alg_ret.kind = "PkcsEncodeTooShort")
              <=> Len(CallDigestInfo) + 11 > alg_call.target_length_in_bytes
        /\ is_ok(alg_ret) <=> Len(CallDigestInfo) + 11 <= alg_call.target_length_in_bytes
        /\ is_ok(alg_ret) =>
              /\ Len(alg_ret.v) = alg_call.target_length_in_bytes
              /\ \E i \in 3..Len(alg_ret.v) :
                    alg_ret.v[i] = 0 /\ \A j \in 3..(i - 1) : alg_ret.v[j] = 255
              /\ PaddingBytes(alg_ret.v) >= 8

\* C17 witness: SHA-512 with the shortest target length that is long enough
\* succeeded with exactly 8 bytes of padding.
C17_Witness ==
    /\ alg_call.fn = "rsa_pkcs1_encode"
    /\ alg_call.self = Sha512
    /\ alg_call.target_length_in_bytes = Len(CallDigestInfo) + 11
    /\ is_ok(alg_ret)
    /\ PaddingBytes(alg_ret.v) = 8

----------------------------------------------------------------------------
(* Claims about the certificate operations, checked under SpecCert. *)

\* self carries, in its original bytes, the signature of the key pair whose
\* public key issuer_view holds, made over self's TbsCertificate bytes and
\* named by self's outer signature algorithm.
CorrectlySignedBy(self, issuer_view) ==
    /\ is_ok(reparse(self))
    /\ \E signer \in KeyPairs :
        /\ public_key_data(signer) = cert_public_key_data(issuer_view)
        /\ reparse(self).v.signature =
              try_sign(signer, reparse(self).v.tbs_certificate.raw_data.v)
        /\ reparse(self).v.signature_algorithm =
              SignatureAlgorithm_into_identifier(signature_algorithm(signer))

\* The key algorithm of the key in a certificate's SubjectPublicKeyInfo.
SubjectKeyAlgorithm(view) ==
    KeyAlgorithm_try_from_identifier(view.tbs_certificate.subject_public_key_info.algorithm)

\* C2: verify_signed_by_certificate resolves the primitive from this
\* certificate's outer signature algorithm and the key algorithm of the key
\* supplied, so a certificate correctly signed by the issuer's key verifies
\* against that issuer whatever the certificate's own key algorithm is.
C2_VerifiesAgainstSuppliedKeyAlgorithm ==
    (/\ cert_call.fn = "verify_signed_by_certificate"
     /\ CorrectlySignedBy(Held(cert_call.slot).v, Held(cert_call.other).v.inner))
    => is_ok(cert_ret)

\* An Ed25519-keyed leaf correctly signed by the P-256 issuer has been checked
\* against that issuer.
C2_Witness ==
    /\ cert_call.fn = "verify_signed_by_certificate"
    /\ CorrectlySignedBy(Held(cert_call.slot).v, Held(cert_call.other).v.inner)
    /\ SubjectKeyAlgorithm(Held(cert_call.slot).v.inner) = Ok(Ed25519)
    /\ SubjectKeyAlgorithm(Held(cert_call.other).v.inner) = Ok(Ecdsa(Secp256r1))

\* C3 (frame): no step changes the original bytes of a certificate held.
OriginalBytesKept ==
    /\ held_cert # None =>
         /\ held_cert' # None
         /\ constructed_data(held_cert'.v) = constructed_data(held_cert.v)
    /\ held_other # None =>
         /\ held_other' # None
         /\ constructed_data(held_other'.v) = constructed_data(held_other.v)
    /\ held_mutable # None =>
         /\ held_mutable' # None
         /\ constructed_data(held_mutable'.v.captured) =
              constructed_data(held_mutable.v.captured)

\* C3 (result): what verify_signed_by_public_key returned is what it returns
\* on a certificate freshly captured from the same bytes, with the same key.
VerifyDependsOnBytesAndKey ==
    cert_call.fn = "verify_signed_by_public_key" =>
        cert_ret = verify_signed_by_public_key(
                       Captured_from_ber(constructed_data(Held(cert_call.slot).v)).v,
                       cert_call.public_key_data)

\* C3: the bytes constructed_data() returns never change after construction
\* (verification, encoding, conversion into MutableX509Certificate and
\* assignment to its parsed view leave them alone), and the result of
\* verify_signed_by_public_key depends only on those bytes and the key given.
C3_OriginalBytesPristine ==
    [][OriginalBytesKept]_vars /\ []VerifyDependsOnBytesAndKey

\* A certificate whose parsed view has been assigned to was verified with a
\* key, and the check passed.
C3_Witness ==
    /\ cert_call.fn = "verify_signed_by_public_key"
    /\ cert_call.slot = "mutable"
    /\ held_mutable.v.captured.inner # held_cert.v.inner
    /\ is_ok(cert_ret)

\* C6: two captured certificates compare equal iff their constructed_data()
\* are equal, whatever their BER/DER tags and parsed views; certificates that
\* compare equal feed a hasher the same bytes.
C6_EqualIffSameBytes ==
    cert_call.fn = "eq" =>
        /\ cert_ret.v.eq <=>
             (constructed_data(Held(cert_call.slot).v) =
              constructed_data(Held(cert_call.other).v))
        /\ cert_ret.v.eq => cert_ret.v.same_hash

\* Two certificates of the same bytes, one tagged BER and one DER, with
\* different parsed views, were compared and found equal.
C6_Witness ==
    /\ cert_call.fn = "eq"
    /\ cert_ret.v.eq
    /\ \E a \in {cert_call.slot}, b \in {cert_call.other} :
        /\ Held(a).v.original.tag # Held(b).v.original.tag
    /\ held_mutable # None
    /\ held_mutable.v.captured.inner # held_cert.v.inner

\* The certificate held was created by the builder, with no explicit issuer,
\* with a key pair of one of the kinds generate_random makes.
BuiltSelfSigned ==
    /\ held_key_pair # None
    /\ held_cert # None
    /\ key_algorithm(held_key_pair.v) \in {Ed25519, Ecdsa(Secp256r1), Ecdsa(Secp384r1)}
    /\ \E builder \in Builders :
        /\ builder.issuer = None
        /\ Ok(held_cert.v) = create_with_key_pair(builder, held_key_pair.v)

\* C7: a certificate the builder made with a generated Ed25519, P-256 or P-384
\* key pair and no explicit issuer verifies as signed by itself.
C7_BuilderSelfSignedVerifies ==
    (/\ cert_call.fn = "verify_signed_by_certificate"
     /\ cert_call.slot = "cert"
     /\ cert_call.other = "cert"
     /\ BuiltSelfSigned)
    => cert_ret = Ok("verified")

\* A builder certificate of a P-384 key pair was verified against itself.
C7_Witness ==
    /\ cert_call.fn = "verify_signed_by_certificate"
    /\ cert_call.slot = "cert"
    /\ cert_call.other = "cert"
    /\ BuiltSelfSigned
    /\ key_algorithm(held_key_pair.v) = Ecdsa(Secp384r1)
    /\ is_ok(cert_ret)

\* C9: verify_signed_data accepts, for a builder certificate of an Ed25519,
\* P-256 or P-384 key pair K, every message with K's signature over it.
C9_VerifySignedDataAcceptsOwnKey ==
    (/\ cert_call.fn = "verify_signed_data"
     /\ held_key_pair # None
     /\ key_algorithm(held_key_pair.v) \in {Ed25519, Ecdsa(Secp256r1), Ecdsa(Secp384r1)}
     /\ cert_call.signer = held_key_pair.v)
    => is_ok(cert_ret)

\* verify_signed_data was called on a builder certificate of a P-256 key pair
\* with that key pair's signature.
C9_Witness ==
    /\ cert_call.fn = "verify_signed_data"
    /\ held_key_pair # None
    /\ key_algorithm(held_key_pair.v) = Ecdsa(Secp256r1)
    /\ cert_call.signer = held_key_pair.v

\* Certificate bytes whose subject key uses the EC public key OID with a curve
\* OID other than those of P-256 and P-384.
HasOtherCurveKey(data) ==
    /\ data.asn1 = "Certificate"
    /\ LET algorithm == data.tbs_certificate.subject_public_key_info.algorithm
       IN  /\ algorithm.algorithm = "1.2.840.10045.2.1"
           /\ IsSomeOidParameter(algorithm.parameters)
           /\ algorithm.parameters.v.oid \notin {"1.2.840.10045.3.1.7", "1.3.132.0.34"}

\* C14: decoding a certificate whose subject key uses the EC public key OID
\* with a curve other than P-256 and P-384 (secp521r1) succeeds, and
\* verify_signed_by_certificate on that certificate returns the
\* unknown-elliptic-curve error: no decode error, no panic, and not
\* CertificateSignatureVerificationFailed.
C14_UnknownCurveSurfacesAtVerification ==
    /\ (cert_call.fn \in {"from_der", "from_ber"} /\ HasOtherCurveKey(cert_call.data))
        => is_ok(cert_ret)
    /\ (cert_call.fn = "verify_signed_by_certificate"
            /\ HasOtherCurveKey(constructed_data(Held(cert_call.slot).v)))
        => (is_err(cert_ret) /\ cert_ret.kind = "UnknownEllipticCurve")

\* C14 witness: the secp521r1 certificate was decoded and then verified against
\* itself, which gave the unknown-elliptic-curve error naming the curve OID.
C14_Witness ==
    /\ held_cert = Some(Captured_from_der(InP521SelfSigned).v)
    /\ cert_call.fn = "verify_signed_by_certificate"
    /\ cert_call.slot = "cert"
    /\ cert_call.other = "cert"
    /\ cert_ret = Err("UnknownEllipticCurve", <<"1.3.132.0.35">>)

----------------------------------------------------------------------------
(* Claims about find_signing_certificate and resolve_signing_chain, checked *)
(* under SpecChain.                                                         *)

\* The candidates of a list, as a set.
Range(certs) == { certs[i] : i \in 1..Len(certs) }

\* issuer's key verifies the signature of subject.
Verifies(subject, issuer) ==
    is_ok(verify_signed_by_certificate(At(subject), At(issuer).inner))

\* Among leaf, intermediate and root: only intermediate verifies leaf, only
\* root verifies intermediate, and root verifies itself.
ThreeTierChain(leaf, intermediate, root) ==
    /\ Verifies(leaf, intermediate)
    /\ ~Verifies(leaf, leaf)
    /\ ~Verifies(leaf, root)
    /\ Verifies(intermediate, root)
    /\ ~Verifies(intermediate, intermediate)
    /\ ~Verifies(intermediate, leaf)
    /\ Verifies(root, root)

\* A call of resolve_signing_chain has returned rsc_chain.
ChainReturned == rsc_call = "resolve_signing_chain" /\ rsc_pc = "done"

\* C1: on a leaf with the candidates {leaf, intermediate, root} of a
\* three-tier chain, in any order, resolve_signing_chain returns
\* [intermediate, root]; with the intermediate not among the candidates it
\* returns the empty chain.
C1_ThreeTierChainResolved ==
    ChainReturned =>
        \A intermediate \in ChainCandidates, root \in ChainCandidates :
            ThreeTierChain(rsc_self, intermediate, root) =>
                /\ Range(rsc_candidates) = {rsc_self, intermediate, root}
                      => rsc_chain = <<intermediate, root>>
                /\ Range(rsc_candidates) = {rsc_self, root}
                      => rsc_chain = <<>>

\* The chain of the leaf was resolved from the candidates in the order root,
\* intermediate, leaf.
C1_Witness ==
    /\ ChainReturned
    /\ rsc_self = "leaf"
    /\ rsc_candidates = <<"root", "inter", "leaf">>
    /\ ThreeTierChain("leaf", "inter", "root")
    /\ rsc_chain = <<"inter", "root">>

\* The byte-distinct candidates that are not byte-equal to self.
DistinctOthers ==
    { constructed_data(At(c)) :
        c \in { d \in Range(rsc_candidates) : ~captured_eq(At(d), At(rsc_self)) } }

\* C4: a call of resolve_signing_chain returns, and the chain it builds is
\* never longer than the number of byte-distinct candidates that are not
\* byte-equal to self.
C4_ChainResolutionTerminates ==
    /\ [](rsc_call = "resolve_signing_chain" => Len(rsc_chain) <= Cardinality(DistinctOthers))
    /\ (rsc_call = "resolve_signing_chain") ~> ChainReturned

\* A call has returned a chain as long as it can be, from candidates that
\* held a copy of self and two certificates that verify each other.
C4_Witness ==
    /\ ChainReturned
    /\ \E i \in 1..Len(rsc_candidates) :
          rsc_candidates[i] # rsc_self /\ captured_eq(At(rsc_candidates[i]), At(rsc_self))
    /\ \E a \in Range(rsc_chain), b \in Range(rsc_chain) :
          a # b /\ Verifies(a, b) /\ Verifies(b, a)
    /\ Len(rsc_chain) = Cardinality(DistinctOthers)

\* C5: find_signing_certificate returns the first candidate in iteration
\* order that verifies self, and none iff no candidate verifies; a candidate
\* whose check fails, with an algorithm error or otherwise, is passed over.
C5_FirstVerifyingCandidate ==
    (rsc_call = "find_signing_certificate" /\ rsc_pc = "done") =>
        /\ rsc_found = None <=>
              \A i \in 1..Len(rsc_candidates) : ~Verifies(rsc_self, rsc_candidates[i])
        /\ rsc_found # None =>
              \E i \in 1..Len(rsc_candidates) :
                  /\ rsc_found.v = rsc_candidates[i]
                  /\ Verifies(rsc_self, rsc_candidates[i])
                  /\ \A j \in 1..(i - 1) : ~Verifies(rsc_self, rsc_candidates[j])

\* find_signing_certificate passed over a candidate that does not verify,
\* returned the next, and a later candidate that verifies too was not
\* returned.
C5_Witness ==
    /\ rsc_call = "find_signing_certificate"
    /\ rsc_pc = "done"
    /\ Len(rsc_candidates) = 3
    /\ ~Verifies(rsc_self, rsc_candidates[1])
    /\ rsc_found = Some(rsc_candidates[2])
    /\ Verifies(rsc_self, rsc_candidates[3])
    /\ rsc_candidates[3] # rsc_candidates[2]

\* The certificate the chain returned ends at: its last member, or self.
ChainEnd == IF Len(rsc_chain) = 0 THEN rsc_self ELSE rsc_chain[Len(rsc_chain)]

\* The candidates left in the pool on return: those byte-equal neither to
\* self nor to a member of the chain.
Pool ==
    { c \in Range(rsc_candidates) :
        /\ ~captured_eq(At(c), At(rsc_self))
        /\ \A m \in Range(rsc_chain) : ~captured_eq(At(c), At(m)) }

\* C24: the chain c returned by resolve_signing_chain(self, candidates) is a
\* verified ancestor sequence, c[0] verifies self and c[i+1] verifies c[i],
\* and it is maximal: no certificate left in the pool verifies the last
\* member of the chain (self, when the chain is empty).
C24_ChainVerifiedAndMaximal ==
    ChainReturned =>
        /\ Len(rsc_chain) > 0 => Verifies(rsc_self, rsc_chain[1])
        /\ \A i \in 1..(Len(rsc_chain) - 1) : Verifies(rsc_chain[i], rsc_chain[i + 1])
        /\ { constructed_data(At(c)) : c \in Range(rsc_remaining) }
              = { constructed_data(At(c)) : c \in Pool }
        /\ \A c \in Pool : ~Verifies(ChainEnd, c)

\* A chain of two certificates was returned with a candidate left in the
\* pool, which does not verify the root the chain ends at.
C24_Witness ==
    /\ ChainReturned
    /\ Len(rsc_chain) = 2
    /\ Verifies(rsc_self, rsc_chain[1])
    /\ Verifies(rsc_chain[1], rsc_chain[2])
    /\ Pool # {}

\* The certificate is signed by its own key.
SelfSigned(ref) == Verifies(ref, ref)

\* The chain holds no certificate byte-equal to self and no two byte-equal
\* certificates.
NoCopies ==
    /\ \A i \in 1..Len(rsc_chain) : ~captured_eq(At(rsc_chain[i]), At(rsc_self))
    /\ \A i \in 1..Len(rsc_chain), j \in 1..Len(rsc_chain) :
          i # j => ~captured_eq(At(rsc_chain[i]), At(rsc_chain[j]))

\* C25 as stated: the chain returned never contains a certificate byte-equal
\* to self and never two byte-equal certificates, whatever duplicates and
\* copies of self the candidates hold, and a self-signed root is appended at
\* most once and ends the chain.
C25_NoCopiesAndRootEndsChain ==
    ChainReturned =>
        /\ NoCopies
        /\ \A i \in 1..Len(rsc_chain) : SelfSigned(rsc_chain[i]) => i = Len(rsc_chain)

\* C25: the chain returned never contains a certificate byte-equal to self
\* and never two byte-equal certificates, whatever duplicates and copies of
\* self the candidates hold and also when self is self-signed; a self-signed
\* root is appended at most once, and the chain goes on past it exactly when
\* a candidate of other bytes left in the pool verifies it.
C25_NoCopiesInChain ==
    ChainReturned =>
        /\ NoCopies
        /\ \A i \in 1..Len(rsc_chain) :
              SelfSigned(rsc_chain[i]) =>
                /\ Cardinality({ j \in 1..Len(rsc_chain) :
                                   captured_eq(At(rsc_chain[j]), At(rsc_chain[i])) }) = 1
                /\ i < Len(rsc_chain) <=>
                      \E c \in Range(rsc_candidates) :
                        /\ ~captured_eq(At(c), At(rsc_self))
                        /\ \A j \in 1..i : ~captured_eq(At(c), At(rsc_chain[j]))
                        /\ Verifies(rsc_chain[i], c)

\* The chain of a self-signed root was resolved from candidates that hold the
\* root twice and a root of other bytes with the same key: the chain is that
\* other root alone.
C25_Witness ==
    /\ ChainReturned
    /\ rsc_self = "root"
    /\ rsc_candidates = <<"root", "root2", "root">>
    /\ rsc_chain = <<"root2">>
    /\ SelfSigned("root")

----------------------------------------------------------------------------
(* Claims about the operations on parsed certificates, checked under        *)
(* SpecX509.                                                                *)

\* The issuer and the subject name of a certificate of the chain inputs.
IssuerName(ref) == At(ref).inner.tbs_certificate.issuer

SubjectName(ref) == At(ref).inner.tbs_certificate.subject

\* C15 as stated: compare_issuer(a, b) returns Less ('a before b') if a's
\* issuer name equals b's subject name, Greater ('b before a') if b's issuer
\* name equals a's subject name, and Equal otherwise, Equal both when a is
\* self-signed and when the two certificates are unrelated.
C15_CompareIssuerLessWhenIssuedByOther ==
    cert_call.fn = "compare_issuer" =>
        LET a == cert_call.self
            b == cert_call.other
        IN  cert_ret = Ok(IF IssuerName(a) = SubjectName(a) THEN "Equal"
                          ELSE IF IssuerName(a) = SubjectName(b) THEN "Less"
                          ELSE IF IssuerName(b) = SubjectName(a) THEN "Greater"
                          ELSE "Equal")

\* C15 amended: compare_issuer(a, b) returns Equal if a is self-signed;
\* otherwise Greater (the issuer b comes before a) if a's issuer name equals
\* b's subject name; otherwise Less (a comes before b) if a's subject name
\* equals b's issuer name; otherwise Equal.
C15_CompareIssuerIssuerFirst ==
    cert_call.fn = "compare_issuer" =>
        LET a == cert_call.self
            b == cert_call.other
        IN  cert_ret = Ok(IF IssuerName(a) = SubjectName(a) THEN "Equal"
                          ELSE IF IssuerName(a) = SubjectName(b) THEN "Greater"
                          ELSE IF IssuerName(b) = SubjectName(a) THEN "Less"
                          ELSE "Equal")

\* C15 witness: the leaf was compared with the intermediate that issued it,
\* and the result is Greater.
C15_Witness ==
    /\ cert_call.fn = "compare_issuer"
    /\ cert_call.self = "leaf"
    /\ cert_call.other = "inter"
    /\ IssuerName("leaf") = SubjectName("inter")
    /\ cert_ret = Ok("Greater")

\* C18: certificate_is_subset_of returns true iff the serials are equal and
\* every RelativeDistinguishedName of a_name occurs among those of b_name,
\* whatever the order and the multiplicity (an empty a_name is a subset of any
\* name); it returns false for every serial mismatch whatever the names.
C18_SubsetOfSerialAndRdns ==
    cert_call.fn = "certificate_is_subset_of" =>
        /\ cert_ret.v = TRUE <=>
              /\ cert_call.a_serial = cert_call.b_serial
              /\ Range(cert_call.a_name) \subseteq Range(cert_call.b_name)
        /\ cert_call.a_serial # cert_call.b_serial => cert_ret.v = FALSE
        /\ (cert_call.a_serial = cert_call.b_serial /\ cert_call.a_name = <<>>)
              => cert_ret.v = TRUE

\* C18 witness: with equal serials, a name that repeats one component and
\* holds another in the opposite order is a subset of a name with both.
C18_Witness ==
    /\ cert_call.fn = "certificate_is_subset_of"
    /\ cert_call.a_serial = cert_call.b_serial
    /\ cert_call.a_name = <<"CN=a", "CN=a">>
    /\ cert_call.b_name = <<"O=acme", "CN=a">>
    /\ cert_ret = Ok(TRUE)

\* The blocks of the PEM text of the last call whose tag is allowed: those
\* tagged CERTIFICATE for from_pem_multiple, those with a tag of the list given
\* for from_pem_multiple_tags.
AllowedBlocks ==
    LET allowed(block) ==
            IF cert_call.fn = "from_pem_multiple" THEN block.tag = "CERTIFICATE"
            ELSE block.tag \in Range(cert_call.tags)
    IN  SelectSeq(cert_call.data.blocks, allowed)

\* The certificate a block's payload decodes to, of the type the call was made
\* on.
DecodedBlock(block) ==
    IF cert_call.type = "X509Certificate" THEN X509Certificate_from_der(block.contents)
    ELSE Captured_from_der(block.contents)

\* C19: from_pem_multiple_tags (with the default list {CERTIFICATE},
\* from_pem_multiple) returns, in input order, exactly the decoded certificates
\* of the blocks whose tag is in the allow-list; a block whose tag is not in
\* the list causes no error, whatever its payload; if a block with an allowed
\* tag fails to decode, the call returns an error and no list.
C19_PemAllowedTagsDecoded ==
    (cert_call.fn \in {"from_pem_multiple", "from_pem_multiple_tags"}
        /\ ~cert_call.data.malformed) =>
        IF \A i \in 1..Len(AllowedBlocks) : is_ok(DecodedBlock(AllowedBlocks[i]))
        THEN cert_ret = Ok([i \in 1..Len(AllowedBlocks) |-> DecodedBlock(AllowedBlocks[i]).v])
        ELSE is_err(cert_ret)

\* C19 witness: a PRIVATE KEY block with bytes that are no certificate, then a
\* CERTIFICATE block; from_pem_multiple returned the one certificate.
C19_Witness ==
    /\ cert_call.fn = "from_pem_multiple"
    /\ cert_call.type = "CapturedX509Certificate"
    /\ cert_call.data = PemText(<< [tag |-> "PRIVATE KEY", contents |-> InGarbage],
                                    [tag |-> "CERTIFICATE", contents |-> InP256Root] >>)
    /\ cert_ret = Ok(<<Captured_from_der(InP256Root).v>>)

----------------------------------------------------------------------------
(* Claims about the algorithm accessors of a key pair, checked under         *)
(* SpecX509.                                                                 *)

\* The signature algorithm of a key type and curve.
SignatureAlgorithmOf(kind, curve) ==
    CASE kind = "Rsa" -> RsaSha256
      [] kind = "Ed25519" -> Ed25519Sig
      [] kind = "Ecdsa" /\ curve = Secp256r1 -> EcdsaSha256
      [] kind = "Ecdsa" /\ curve = Secp384r1 -> EcdsaSha384

\* The curve of a key pair, "-" when its kind has none.
CurveOf(kp) == IF kp.kp = "Ecdsa" THEN kp.curve ELSE "-"

\* C21: signature_algorithm() of a key pair is that of its key type and curve
\* alone (RSA gives RSA+SHA-256, P-256 ECDSA+SHA-256, P-384 ECDSA+SHA-384,
\* Ed25519 gives Ed25519), and verification_algorithm() of every key pair
\* returns Ok and never the "illegal combination" panic: the pairing of
\* signature_algorithm() with key_algorithm() is a legal one.
C21_KeyPairAlgorithmsLegal ==
    /\ cert_call.fn = "signature_algorithm" =>
          cert_ret = Ok(SignatureAlgorithmOf(cert_call.self.kp, CurveOf(cert_call.self)))
    /\ cert_call.fn = "verification_algorithm" =>
          /\ cert_ret.tag = "Ok"
          /\ LegalPairing(signature_algorithm(cert_call.self), key_algorithm(cert_call.self))
          /\ cert_ret = resolve_verification_algorithm(
                            SignatureAlgorithmOf(cert_call.self.kp, CurveOf(cert_call.self)),
                            key_algorithm(cert_call.self))

\* verification_algorithm() has returned for an Ed25519 key pair of the second
\* key material.
C21_Witness ==
    /\ cert_call.fn = "verification_algorithm"
    /\ cert_call.self = Ed25519KeyPair(MaxKeyId + 1)
    /\ cert_ret = Ok("ED25519")

----------------------------------------------------------------------------
(* Claims about the builder's extensions, checked under SpecX509. *)

\* The number of the KeyUsage flag in the ASN.1 definition: digitalSignature
\* 0 to cRLSign 6.
FlagNumber(ku) ==
    CASE ku = "DigitalSignature" -> 0
      [] ku = "NonRepudiation" -> 1
      [] ku = "KeyEncipherment" -> 2
      [] ku = "DataEncipherment" -> 3
      [] ku = "KeyAgreement" -> 4
      [] ku = "KeyCertSign" -> 5
      [] ku = "CrlSign" -> 6

\* The bits set in a byte.
BitsSet(byte) == { i \in 0..7 : BitOf(byte, i) = 1 }

\* The extension key_usage appended.
Appended == cert_ret.v.extensions[Len(cert_ret.v.extensions)]

\* C22: key_usage(flag) appends one critical extension with OID 2.5.29.15
\* whose value is a 4-byte BIT STRING with exactly one bit set in its content
\* byte, the bit of the flag (bit n of a BIT STRING is the n-th from the most
\* significant bit of the first content byte).
C22_KeyUsageOneBit ==
    cert_call.fn = "key_usage" =>
        /\ Len(cert_ret.v.extensions) = Len(cert_call.self.extensions) + 1
        /\ SubSeq(cert_ret.v.extensions, 1, Len(cert_call.self.extensions))
              = cert_call.self.extensions
        /\ Appended.id = "2.5.29.15"
        /\ Appended.critical = Some(TRUE)
        /\ Len(Appended.value) = 4
        /\ Appended.value[1] = 3 /\ Appended.value[2] = 2
        /\ BitsSet(Appended.value[4]) = { 7 - FlagNumber(cert_call.key_usage) }

\* key_usage(NonRepudiation) appended a value whose content byte is 0x81: two
\* bits set.
C22_Witness ==
    /\ cert_call.fn = "key_usage"
    /\ cert_call.key_usage = "NonRepudiation"
    /\ Appended.value = <<3, 2, 7, 129>>
    /\ Cardinality(BitsSet(Appended.value[4])) = 2

----------------------------------------------------------------------------
(* Claims about the certificates of the builder, checked under SpecX509. *)

\* The parsed certificate create_with_key_pair returned.
Created == cert_ret.v.inner

\* C23: a certificate created when no issuer was ever defined has its issuer
\* name equal to its subject name, the subject of the builder whatever was
\* added to it, and subject_is_issuer() is true; when an issuer was defined
\* the issuer of the certificate is that name, not a copy of the subject:
\* subject_is_issuer() is true only if the two names defined are equal.
C23_IssuerDefaultsToSubject ==
    cert_call.fn = "create_with_key_pair" =>
        /\ is_ok(cert_ret)
        /\ Created.tbs_certificate.subject = cert_call.self.subject
        /\ cert_call.self.issuer = None =>
              /\ Created.tbs_certificate.issuer = cert_call.self.subject
              /\ subject_is_issuer(Created)
        /\ cert_call.self.issuer # None =>
              /\ Created.tbs_certificate.issuer = cert_call.self.issuer.v
              /\ subject_is_issuer(Created) <=>
                    (cert_call.self.issuer.v = cert_call.self.subject)

\* A certificate was created with two attributes in the subject and no issuer
\* defined, and another could be with an issuer that is not the subject.
C23_Witness ==
    /\ cert_call.fn = "create_with_key_pair"
    /\ cert_call.self.issuer = None
    /\ cert_call.self.subject = <<"C=US", "CN=a">>
    /\ subject_is_issuer(Created)
    /\ \E b \in CreateBuilders :
        /\ b.issuer = Some(<<"O=acme">>)
        /\ b.subject = <<"CN=a">>
        /\ ~subject_is_issuer(create_with_key_pair(b, cert_call.key_pair).v.inner)

\* C26: in every certificate create_with_key_pair produces, the signature
\* algorithm field of the TbsCertificate equals the outer signature algorithm
\* field and both are key_pair.signature_algorithm(); for an ECDSA key pair
\* the algorithm of the SubjectPublicKeyInfo is the EC public key OID with the
\* OID of the key pair's curve as parameters.
C26_BuilderAlgorithmFields ==
    cert_call.fn = "create_with_key_pair" =>
        /\ is_ok(cert_ret)
        /\ Created.tbs_certificate.signature = Created.signature_algorithm
        /\ SignatureAlgorithm_try_from_identifier(Created.signature_algorithm)
              = Ok(signature_algorithm(cert_call.key_pair))
        /\ SignatureAlgorithm_try_from_identifier(Created.tbs_certificate.signature)
              = Ok(signature_algorithm(cert_call.key_pair))
        /\ cert_call.key_pair.kp = "Ecdsa" =>
              LET algorithm == Created.tbs_certificate.subject_public_key_info.algorithm
              IN  /\ algorithm.algorithm = "1.2.840.10045.2.1"
                  /\ IsOidParameter(algorithm.parameters,
                                    IF cert_call.key_pair.curve = Secp256r1
                                    THEN "1.2.840.10045.3.1.7" ELSE "1.3.132.0.34")

\* A certificate was created with a P-256 key pair: ecdsa-with-SHA256 in both
\* fields, the P-256 curve OID in the key's parameters.
C26_Witness ==
    /\ cert_call.fn = "create_with_key_pair"
    /\ cert_call.key_pair = EcdsaKeyPair(Secp256r1, 1)
    /\ Created.signature_algorithm.algorithm = "1.2.840.10045.4.3.2"
    /\ Created.tbs_certificate.signature.algorithm = "1.2.840.10045.4.3.2"
    /\ IsOidParameter(Created.tbs_certificate.subject_public_key_info.algorithm.parameters,
                      "1.2.840.10045.3.1.7")

----------------------------------------------------------------------------
(* Claims about the errors of verification, checked under SpecX509. *)

\* The bytes of the certificate verify_signed_by_public_key was called on.
VerifiedBytes == cert_call.self.original.data

\* What the key algorithm and the signature algorithm of those bytes resolve
\* to.
KeyResolution ==
    KeyAlgorithm_try_from_identifier(
        VerifiedBytes.tbs_certificate.subject_public_key_info.algorithm)

SignatureResolution ==
    SignatureAlgorithm_try_from_identifier(VerifiedBytes.signature_algorithm)

\* The call failed with an error of this kind.
FailedWith(kind) == cert_ret.tag = "Err" /\ cert_ret.kind = kind

\* The signature in the bytes is that of the key given over the TbsCertificate
\* in the bytes.
SignatureIsOfKey ==
    /\ VerifiedBytes.signature.by = cert_call.public_key_data
    /\ VerifiedBytes.signature.over = VerifiedBytes.tbs_certificate

\* C27: verify_signed_by_public_key reports failures in a fixed order of
\* distinct kinds: an error of resolving the key algorithm first (unknown key
\* algorithm, unknown curve, unhandled parameters, parameters that do not
\* decode), then unknown signature algorithm, then unsupported combination of
\* key and signature algorithm.  CertificateSignatureVerificationFailed is
\* returned only when the three resolutions succeeded and the cryptographic
\* check rejected the TbsCertificate bytes, signature and key, and it carries
\* no detail: a wrong key and a corrupted signature give the same value.
C27_VerifyErrorOrder ==
    cert_call.fn = "verify_signed_by_public_key" =>
        /\ cert_ret.tag \in {"Ok", "Err"}
        /\ is_err(KeyResolution) =>
              /\ cert_ret = KeyResolution
              /\ cert_ret.kind \in {"UnknownKeyAlgorithm", "UnknownEllipticCurve",
                                    "UnhandledKeyAlgorithmParameters", "Asn1Decode"}
        /\ (is_ok(KeyResolution) /\ is_err(SignatureResolution)) =>
              FailedWith("UnknownSignatureAlgorithm")
        /\ (is_ok(KeyResolution) /\ is_ok(SignatureResolution)
              /\ ~LegalPairing(SignatureResolution.v, KeyResolution.v)) =>
              FailedWith("UnsupportedSignatureVerification")
        /\ FailedWith("CertificateSignatureVerificationFailed") =>
              /\ is_ok(KeyResolution) /\ is_ok(SignatureResolution)
              /\ LegalPairing(SignatureResolution.v, KeyResolution.v)
              /\ cert_ret = Err("CertificateSignatureVerificationFailed", <<>>)
        /\ is_ok(cert_ret) =>
              /\ is_ok(KeyResolution) /\ is_ok(SignatureResolution)
              /\ LegalPairing(SignatureResolution.v, KeyResolution.v)
              /\ SignatureIsOfKey
        /\ (is_ok(KeyResolution) /\ is_ok(SignatureResolution)
              /\ LegalPairing(SignatureResolution.v, KeyResolution.v)
              /\ ~SignatureIsOfKey) =>
              FailedWith("CertificateSignatureVerificationFailed")

\* A certificate whose key algorithm and signature algorithm are both unknown
\* was checked: the error is that of the key algorithm.
C27_Witness ==
    /\ cert_call.fn = "verify_signed_by_public_key"
    /\ is_err(KeyResolution)
    /\ is_err(SignatureResolution)
    /\ FailedWith("UnknownKeyAlgorithm")

----------------------------------------------------------------------------
(* Claims about the bytes a captured certificate keeps, checked under        *)
(* SpecX509.                                                                 *)

\* The call is one of a constructor of CapturedX509Certificate.
ConstructorCalled ==
    \/ cert_call.fn = "create_with_key_pair"
    \/ /\ cert_call.fn \in {"from_der", "from_ber", "from_pem", "try_from",
                             "from_pem_multiple", "from_pem_multiple_tags"}
       /\ cert_call.type = "CapturedX509Certificate"

\* The captured certificates the constructor returned.
Constructed ==
    IF ~is_ok(cert_ret) THEN {}
    ELSE IF cert_call.fn \in {"from_pem_multiple", "from_pem_multiple_tags"}
    THEN Range(cert_ret.v)
    ELSE {cert_ret.v}

\* The bytes decode in the mode of their tag.
DecodesAsTagged(c) ==
    /\ c.original.tag \in {"Ber", "Der"}
    /\ c.original.tag = "Ber" => is_ok(X509Certificate_from_ber(c.original.data))
    /\ c.original.tag = "Der" => is_ok(X509Certificate_from_der(c.original.data))

\* C28: the bytes stored in a captured certificate made by any constructor
\* (from_der, from_ber, from_pem, from_pem_multiple_tags, conversion from a
\* parsed certificate, the Builder) decode in the mode their BER/DER tag
\* records, the TbsCertificate decoded carries the bytes it was read from, and
\* verification of the certificate with any key does not panic.
C28_StoredBytesReparse ==
    ConstructorCalled =>
        \A c \in Constructed :
            /\ DecodesAsTagged(c)
            /\ is_ok(reparse(c))
            /\ reparse(c).v.tbs_certificate.raw_data = Some(c.original.data.tbs_certificate)
            /\ \A kp \in KeyPairs :
                  verify_signed_by_public_key(c, public_key_data(kp)).tag \in {"Ok", "Err"}

\* from_ber captured bytes that are BER and not DER.
C28_Witness ==
    /\ cert_call.fn = "from_ber"
    /\ cert_call.type = "CapturedX509Certificate"
    /\ cert_call.data = InBerLeaf
    /\ is_ok(cert_ret)
    /\ cert_ret.v.original.tag = "Ber"
    /\ is_err(X509Certificate_from_der(cert_ret.v.original.data))
    /\ is_ok(reparse(cert_ret.v))

----------------------------------------------------------------------------
(* Claims about compare_issuer as an ordering, checked under SpecX509. *)

\* Ordering::reverse
Reverse(ordering) ==
    CASE ordering = "Less" -> "Greater"
      [] ordering = "Greater" -> "Less"
      [] ordering = "Equal" -> "Equal"

\* C29: compare_issuer is a consistent ordering that sorts issuers before the
\* certificates they issued: compare_issuer(a, b) is the reverse of
\* compare_issuer(b, a) for all a and b, and whenever the subject of a is the
\* issuer of b, a distinct from b, compare_issuer(a, b) is Less, also when a
\* is a self-signed root.
C29_CompareIssuerConsistent ==
    cert_call.fn = "compare_issuer" =>
        LET a == cert_call.self
            b == cert_call.other
        IN  /\ compare_issuer(At(b).inner, At(a).inner) = Reverse(cert_ret.v)
            /\ (SubjectName(a) = IssuerName(b) /\ ~captured_eq(At(a), At(b)))
                  => cert_ret = Ok("Less")

\* The self-signed root was compared with the intermediate it issued: the
\* result is Equal, and that of the opposite comparison is Greater.
C29_Witness ==
    /\ cert_call.fn = "compare_issuer"
    /\ cert_call.self = "root"
    /\ cert_call.other = "inter"
    /\ SubjectName("root") = IssuerName("root")
    /\ SubjectName("root") = IssuerName("inter")
    /\ cert_ret = Ok("Equal")
    /\ compare_issuer(At("inter").inner, At("root").inner) = "Greater"

----------------------------------------------------------------------------
(* Claims about the circuit breaker, checked under SpecBreaker. *)

\* No task is inside a call on the breaker.
NoCallUnderWay == \A t \in Tasks : cb_pc[t] \in {"idle", "operation"}

\* C30: whatever the interleaving of record_failure, record_success and
\* can_execute, once the calls under way have returned the status and the
\* failure counter agree: status Open or HalfOpen implies failure_count >=
\* threshold, so that after a record_success that fewer than threshold
\* failures followed the status is Closed.
C30_StatusAgreesWithCounter ==
    (NoCallUnderWay /\ cb_status \in {"Open", "HalfOpen"}) =>
        cb_failure_count >= cb_threshold

\* With every call returned the breaker is Open and its counter is 0: a
\* record_success came between the fetch_add of a record_failure and its write
\* of the status.
C30_Witness ==
    /\ \A t \in Tasks : cb_pc[t] = "idle"
    /\ cb_status = "Open"
    /\ cb_failure_count = 0
    /\ cb_threshold = 2

=============================================================================
